---- MODULE Spec2Model ----
(***************************************************************************)
(* Model of the survey extraction scripts under server/scripts.            *)
(*                                                                         *)
(* A document is the list `lines` that extract_questions_from_section      *)
(* builds from the flattened HTML text.  A line is modelled as a sequence  *)
(* of tokens; the tokens of a line are separated by single spaces in the   *)
(* text, so the text of a line is its tokens joined by ' '.  What the      *)
(* regular expressions and the str methods of the code see in a token      *)
(* (its prefixes, the literals it contains, the question id it carries) is *)
(* given token by token in the tables below.  Line indices i, j, k are     *)
(* 0-based as in the code.                                                 *)
(***************************************************************************)
EXTENDS Integers, Sequences, FiniteSets, TLC

\* ------------------------------------------------------------------ bounds
MaxLen == 4
MaxBatch == 3

\* ------------------------------------------------- program constants
InnerWindow == 40
ScoringWindow == 50
BoundarySlack == 2

\* None of the code: a value no token sequence equals.
None == <<"<None>">>
NoInt == -1

\* ---------------------------------------------------------- token tables
\* Tokens that carry "<letter>.<qualifier>" with qualifier in [\dA-Z.]+ :
\* sec is the letter, qual the greedy qualifier, whole says whether the
\* token is exactly "<letter>.<qualifier>" (nothing before the letter).
IdTokens ==
  { [tok |-> "A.1",     sec |-> "A", qual |-> "1",     whole |-> TRUE],
    [tok |-> "A.2",     sec |-> "A", qual |-> "2",     whole |-> TRUE],
    [tok |-> "A.13.1F", sec |-> "A", qual |-> "13.1F", whole |-> TRUE],
    [tok |-> "XA.1",    sec |-> "A", qual |-> "1",     whole |-> FALSE],
    [tok |-> "USA.GOV", sec |-> "A", qual |-> "GOV",   whole |-> FALSE],
    [tok |-> "A.M.",    sec |-> "A", qual |-> "M.",    whole |-> TRUE],
    [tok |-> "B.1",     sec |-> "B", qual |-> "1",     whole |-> TRUE],
    [tok |-> "N.1",     sec |-> "N", qual |-> "1",     whole |-> TRUE],
    [tok |-> "N.2",     sec |-> "N", qual |-> "2",     whole |-> TRUE],
    [tok |-> "P.1",     sec |-> "P", qual |-> "1",     whole |-> TRUE],
    [tok |-> "P.7",     sec |-> "P", qual |-> "7",     whole |-> TRUE],
    [tok |-> "T.1",     sec |-> "T", qual |-> "1",     whole |-> TRUE] }

\* The literals of the code that occur inside a token ('lit' in token).
Literals(tok) ==
  CASE tok = "Help Text"             -> {"Help Text"}
    [] tok = "Please select"         -> {"Please select"}
    [] tok = "following options"     -> {"following options"}
    [] tok = "Yes,"                  -> {"Yes,"}
    [] tok = "No,"                   -> {"No,"}
    [] tok = "Not applicable"        -> {"Not applicable"}
    [] tok = "Show possible answers" -> {"Show possible answers", "Show possible"}
    [] tok = "Comments"              -> {"Comments"}
    [] tok = "Answered by:"          -> {"Answered by:"}
    [] tok = "Date:"                 -> {"Date:"}
    [] tok = "Data Location:"        -> {"Data Location:", "Data Location"}
    [] tok = "Create a new task"     -> {"Create a new task"}
    [] tok = "Likelihood: 3, Overall impact: 4" -> {"Likelihood:", "impact:"}
    [] tok = "Likelihood: 1, Overall impact: 2" -> {"Likelihood:", "impact:"}
    [] tok = "Likelihood: high, impact: low"    -> {"Likelihood:", "impact:"}
    [] tok = "policy?"               -> {"?"}
    [] tok = "ending?"               -> {"?"}
    [] tok = "what?"                 -> {"?"}
    [] OTHER                         -> {}

\* The literals of the code a token starts with (token.startswith(lit)).
Prefixes(tok) ==
  CASE tok = "Yes,"                  -> {"Yes,"}
    [] tok = "No,"                   -> {"No,"}
    [] tok = "Not applicable"        -> {"Not applicable"}
    [] tok = "Show possible answers" -> {"Show possible answers", "Show possible"}
    [] tok = "Comments"              -> {"Comments"}
    [] tok = "Data Location:"        -> {"Data Location:", "Data Location"}
    [] tok = "Create a new task"     -> {"Create a new task"}
    [] tok = "Please select"         -> {"Please select"}
    [] tok = "Answered by:"          -> {"Answered by:"}
    [] tok = "Date:"                 -> {"Date:"}
    [] tok = "Likelihood: 3, Overall impact: 4" -> {"Likelihood"}
    [] tok = "Likelihood: 1, Overall impact: 2" -> {"Likelihood"}
    [] tok = "Likelihood: high, impact: low"    -> {"Likelihood"}
    [] tok = "Does"                  -> {"Does", "Do"}
    [] tok = "Documented"            -> {"Do"}
    [] tok = "Is there"              -> {"Is there"}
    [] OTHER                         -> {}

\* r'Likelihood:\s*(\d+),\s*Overall impact:\s*(\d+)' on one token.
ScoreOf(tok) ==
  CASE tok = "Likelihood: 3, Overall impact: 4" -> <<3, 4>>
    [] tok = "Likelihood: 1, Overall impact: 2" -> <<1, 2>>
    [] OTHER                                    -> <<>>

\* Tokens holding the character 'N' (the class [^N] must not cross them).
HasN(tok) == tok \in {"No,", "Not applicable", "NIST"}

\* Tokens matching \d+\. at their end ("1." of "1. A.1 ...").
IsNumberDot(tok) == tok \in {"1.", "2."}

\* Tokens matching \d{2}/\d{2}/\d{4}.
IsDate(tok) == tok \in {"07/12/2024"}

\* Tokens made of [A-Za-z] only.
IsAlpha(tok) == tok \in {"Jane", "Doe", "we", "have", "a", "program", "text", "prose", "x", "y"}

\* A run of two or more whitespace characters inside a line.
WideSpace == "  "

\* ------------------------------------------------------ str / re on lines
Min(a, b) == IF a < b THEN a ELSE b

\* 'lit' in line
Contains(line, lit) == \E p \in 1..Len(line) : lit \in Literals(line[p])

\* line.startswith(lit)
StartsWith(line, lit) == Len(line) > 0 /\ lit \in Prefixes(line[1])

\* line.startswith((lit1, lit2, ...))
StartsWithAny(line, lits) == \E lit \in lits : StartsWith(line, lit)

\* position of the first token holding lit at or after position from, 0 if none
FirstAt(line, lit, from) ==
  IF \E p \in from..Len(line) : lit \in Literals(line[p])
    THEN CHOOSE p \in from..Len(line) :
           /\ lit \in Literals(line[p])
           /\ \A q \in from..(p - 1) : lit \notin Literals(line[q])
    ELSE 0

\* line.split(lit)[0].strip()
SplitHead(line, lit) ==
  LET p == FirstAt(line, lit, 1)
  IN  IF p = 0 THEN line ELSE SubSeq(line, 1, p - 1)

\* line.split(lit)[1].strip(): what lies between the first and second lit
SplitSecond(line, lit) ==
  LET p == FirstAt(line, lit, 1)
      q == FirstAt(line, lit, p + 1)
  IN  IF q = 0 THEN SubSeq(line, p + 1, Len(line)) ELSE SubSeq(line, p + 1, q - 1)

\* line.split(lit, 1)[1]: everything after the first lit
SplitRest(line, lit) ==
  LET p == FirstAt(line, lit, 1)
  IN  SubSeq(line, p + 1, Len(line))

\* re.search(rf'{section_id}\.[\dA-Z.]+', line): the pattern is not anchored,
\* so any token that holds "<section_id>." followed by a qualifier matches.
IdTokenFor(tok, sid) == \E r \in IdTokens : r.tok = tok /\ r.sec = sid

IsQuestionStart(line, sid) == \E p \in 1..Len(line) : IdTokenFor(line[p], sid)

\* q_match.group(1): the qualifier of the first match in the line
QNum(line, sid) ==
  LET p == CHOOSE p \in 1..Len(line) :
             /\ IdTokenFor(line[p], sid)
             /\ \A q \in 1..(p - 1) : ~IdTokenFor(line[q], sid)
      r == CHOOSE r \in IdTokens : r.tok = line[p] /\ r.sec = sid
  IN  r.qual

\* tokens ending in "<sid>.<qnum>" (what rf'{section_id}\.{q_num}\s+' needs)
EndsWithId(tok, sid, qnum) ==
  \E r \in IdTokens : r.tok = tok /\ r.sec = sid /\ r.qual = qnum

\* tokens that are exactly "<sid>.<qnum>"
IsId(tok, sid, qnum) ==
  \E r \in IdTokens : r.tok = tok /\ r.sec = sid /\ r.qual = qnum /\ r.whole

\* f"{section_id}.{q_num}"
QuestionId(sid, qnum) == <<sid, ".", qnum>>

\* the least element of a non-empty set of integers
Least(S) == CHOOSE p \in S : \A q \in S : p <= q

\* text.strip(): drop the whitespace runs at both ends
RECURSIVE StripLeft(_)
StripLeft(text) ==
  IF Len(text) > 0 /\ text[1] = WideSpace THEN StripLeft(Tail(text)) ELSE text

RECURSIVE StripRight(_)
StripRight(text) ==
  IF Len(text) > 0 /\ text[Len(text)] = WideSpace
    THEN StripRight(SubSeq(text, 1, Len(text) - 1))
    ELSE text

Strip(text) == StripRight(StripLeft(text))

\* re.sub(r'\s+', ' ', text): every whitespace run becomes the single space
\* that separates two tokens
CollapseSpaces(text) == SelectSeq(text, LAMBDA t : t # WideSpace)

\* ------------------------------------------- the header of a record (44-91)
Openers == {"Is there", "Does", "Has", "Have", "Are", "Do", "Will"}

\* rf'{section_id}\.{q_num}\s+(.+?)(?:Answered by:|$)': group(1), or None
AnswerMatch(line, sid, qnum) ==
  LET P == {p \in 1..(Len(line) - 1) : EndsWithId(line[p], sid, qnum)}
  IN  IF P = {} THEN None
      ELSE LET p == Least(P)
               a == FirstAt(line, "Answered by:", p + 2)
           IN  IF a = 0 THEN SubSeq(line, p + 1, Len(line))
                        ELSE SubSeq(line, p + 1, a - 1)

\* lines 52-58
SelectedOption(line, sid, qnum) ==
  LET m == AnswerMatch(line, sid, qnum)
  IN  IF m = None THEN None
      ELSE IF StartsWithAny(Strip(m), Openers) THEN None ELSE Strip(m)

\* r'Answered by:\s*([A-Za-z\s]+?)(?:Date:|$)' tried at the marker at p:
\* the position of the last token of the name, 0 if there is no match
NameEnd(line, p) ==
  LET Stop == {q \in (p + 1)..Len(line) :
                 ~IsAlpha(line[q]) /\ line[q] # WideSpace}
  IN  IF Stop = {}
        THEN IF p < Len(line) THEN Len(line) ELSE 0
        ELSE IF "Date:" \in Literals(line[Least(Stop)])
               THEN Least(Stop) - 1
               ELSE 0

\* lines 66-69
AnsweredBy(line) ==
  IF ~Contains(line, "Answered by:") THEN None
  ELSE LET P == {p \in 1..Len(line) :
                   "Answered by:" \in Literals(line[p]) /\ NameEnd(line, p) # 0}
       IN  IF P = {} THEN None
           ELSE Strip(SubSeq(line, Least(P) + 1, NameEnd(line, Least(P))))

\* lines 71-74: r'Date:\s*(\d{2}/\d{2}/\d{4})'
AnsweredDate(line) ==
  IF ~Contains(line, "Date:") THEN None
  ELSE LET P == {p \in 1..(Len(line) - 1) :
                   "Date:" \in Literals(line[p]) /\ IsDate(line[p + 1])}
       IN  IF P = {} THEN None ELSE <<line[Least(P) + 1]>>

\* the first match of the scoring pattern in a line, <<>> if none
LineScore(line) ==
  LET P == {p \in 1..Len(line) : ScoreOf(line[p]) # <<>>}
  IN  IF P = {} THEN <<>> ELSE ScoreOf(line[Least(P)])

\* lines 76-85: for j in range(i, min(i + 50, len(lines)))
RECURSIVE ScoringFrom(_, _, _)
ScoringFrom(ls, jj, stop) ==
  IF jj >= stop THEN <<NoInt, NoInt>>
  ELSE IF /\ Contains(ls[jj + 1], "Likelihood:")
          /\ Contains(ls[jj + 1], "impact:")
          /\ LineScore(ls[jj + 1]) # <<>>
         THEN LineScore(ls[jj + 1])
         ELSE ScoringFrom(ls, jj + 1, stop)

\* the lookahead without its window: the search runs to the end of the document
ScoringLookaheadUnbounded(ls, ii) == ScoringFrom(ls, ii, Len(ls))

ScoringLookahead(ls, ii) == ScoringFrom(ls, ii, Min(ii + ScoringWindow, Len(ls)))

\* ------------------------------------------ the single-line format (94-117)
\* rf'\d+\.\s+{section_id}\.{q_num}\s+(.+?)(?:Help Text|$)': group(1), or None
SameLineMatch(line, sid, qnum) ==
  LET P == {p \in 1..(Len(line) - 2) :
              IsNumberDot(line[p]) /\ IsId(line[p + 1], sid, qnum)}
  IN  IF P = {} THEN None
      ELSE LET p == Least(P)
               h == FirstAt(line, "Help Text", p + 3)
           IN  IF h = 0 THEN SubSeq(line, p + 2, Len(line))
                        ELSE SubSeq(line, p + 2, h - 1)

\* lines 101-106
SameLineHelp(line) ==
  IF ~Contains(line, "Help Text") THEN None
  ELSE LET remaining == SplitRest(line, "Help Text")
       IN  IF Contains(remaining, "Please select")
             THEN Strip(SplitHead(remaining, "Please select"))
             ELSE None

\* where the option that starts at p ends: the class [^N]+? runs to the first
\* token holding an 'N' or one of the other lookahead literals; the match
\* needs that token to begin one of the lookahead literals.  0: no match.
OptionEnd(line, p, stops) ==
  LET Q == {q \in (p + 1)..Len(line) :
              HasN(line[q]) \/ Literals(line[q]) \cap stops # {}}
  IN  IF Q = {} THEN 0
      ELSE IF Prefixes(line[Least(Q)]) \cap stops # {} THEN Least(Q) - 1 ELSE 0

\* the leftmost match of r'(<first>[^N]+?)(?=<stops>)', None if none
OptionMatch(line, first, stops) ==
  LET P == {p \in 1..Len(line) :
              first \in Literals(line[p]) /\ OptionEnd(line, p, stops) # 0}
  IN  IF P = {} THEN None
      ELSE Strip(SubSeq(line, Least(P), OptionEnd(line, Least(P), stops)))

YesStops == {"No,", "Not applicable", "Show possible"}
NoStops == {"Not applicable", "Show possible", "Comments"}

\* lines 108-117: the options of the single-line format
SameLineOptions(line) ==
  LET yes == IF Contains(line, "Yes,") THEN OptionMatch(line, "Yes,", YesStops) ELSE None
      no  == IF Contains(line, "No,") THEN OptionMatch(line, "No,", NoStops) ELSE None
      na  == Contains(line, "Not applicable")
  IN  (IF yes # None THEN <<yes>> ELSE <<>>)
        \o (IF no # None THEN <<no>> ELSE <<>>)
        \o (IF na THEN << <<"Not applicable">> >> ELSE <<>>)

\* ------------------------------------------- the multi-line format (142-238)
\* the continuation loop without the test of line 199: it absorbs the lines
\* that start a question
RECURSIVE ContinuationEndPastQuestions(_, _, _, _)
ContinuationEndPastQuestions(ls, k, stops, sid) ==
  IF k < Len(ls) /\ ~StartsWithAny(ls[k + 1], stops)
    THEN ContinuationEndPastQuestions(ls, k + 1, stops, sid)
    ELSE k

\* lines 197-203 and 211-217: the continuation loop of a Yes,/No, option;
\* k is the line it looks at, the value is k when the loop ends
RECURSIVE ContinuationEnd(_, _, _, _)
ContinuationEnd(ls, k, stops, sid) ==
  IF k < Len(ls) /\ ~StartsWithAny(ls[k + 1], stops)
    THEN IF Len(ls[k + 1]) > 0 /\ ~IsQuestionStart(ls[k + 1], sid)
           THEN ContinuationEnd(ls, k + 1, stops, sid)
           ELSE k
    ELSE k

\* lines[from] + ' ' + lines[from + 1] + ... + ' ' + lines[to - 1]
RECURSIVE JoinLines(_, _, _)
JoinLines(ls, from, to) ==
  IF from >= to THEN <<>> ELSE ls[from + 1] \o JoinLines(ls, from + 1, to)

YesContinuationStops == {"No,", "Not applicable", "Show possible", "Comments"}

\* line 212 with the tuple of line 198: a "No," option that stops at "No,"
NoContinuationStopsOfYes == {"No,", "Not applicable", "Show possible", "Comments"}

NoContinuationStops == {"Yes,", "Not applicable", "Show possible", "Comments"}

\* x in options
InOptions(opts, x) == \E n \in 1..Len(opts) : opts[n] = x

\* ------------------------------------------------------------- main (281-325)
\* r'Section ([A-Z]):\s*(.+?)\s*-\s*\((.+?)\)' and, failing that,
\* r'Section ([A-Z])\s*-\s*(.+?)\s*-\s*\((.+?)\)' on the text of the h1.
\* A title is [form, name, risk]: form "colon" is "Section A: name - (risk)",
\* "dash" is "Section A - name - (risk)", "plain" is "Section A: name" with
\* no risk level, "other" is any text with no "Section <letter>", "" no h1.
TitleMatches(title) == title.form \in {"colon", "dash"}

\* the order of str on the section identifiers used
SectionOrder == <<"A", "B", "N", "P", "T">>

Rank(sid) == CHOOSE n \in 1..Len(SectionOrder) : SectionOrder[n] = sid

\* sorted(all_sections.values(), key=lambda x: x['sectionId']), a stable sort
RECURSIVE InsertSorted(_, _)
InsertSorted(sorted, x) ==
  IF sorted = <<>> THEN <<x>>
  ELSE IF Rank(sorted[Len(sorted)].sectionId) <= Rank(x.sectionId)
         THEN Append(sorted, x)
         ELSE Append(InsertSorted(SubSeq(sorted, 1, Len(sorted) - 1), x),
                     sorted[Len(sorted)])

RECURSIVE SortedBySectionId(_)
SortedBySectionId(secs) ==
  IF secs = <<>> THEN <<>>
  ELSE InsertSorted(SortedBySectionId(SubSeq(secs, 1, Len(secs) - 1)), secs[Len(secs)])

\* lines 317-323 without the test of line 318: every result is a new entry
MergeSectionAlwaysAppends(secs, data) == Append(secs, data)

\* lines 317-323: all_sections is kept as the list of its values in
\* insertion order
MergeSection(secs, data) ==
  IF \E n \in 1..Len(secs) : secs[n].sectionId = data.sectionId
    THEN [n \in 1..Len(secs) |->
            IF secs[n].sectionId = data.sectionId
              THEN [secs[n] EXCEPT !.questions = @ \o data.questions]
              ELSE secs[n]]
    ELSE Append(secs, data)

\* ------------------------------------------------------------------- state
VARIABLES
  batch,          \* sections_to_extract with the files behind the names
  d,              \* position in sections_to_extract of the next document
  pc,             \* "main", "outer" (line 39), "inner" (line 148), "done"
  all_sections, sections_list,
  printed,        \* the diagnostics printed by main and by the except clause
  returned,       \* history: what each document visited by main contributed
  parked,         \* the locals of a second, suspended invocation of the scan
  lines, section_id, section_name, risk_level, questions, i, j,
  question_id, selected_option, answered_by, answered_date,
  likelihood, overall_impact,
  question_text, help_text, options, comments,
  collecting_question, collecting_options, collecting_comments,
  options_at,     \* history: where each entry of options starts in the document
  starts,         \* history: for each entry of questions, where it came from
  batches,        \* consolidate_batches.py: the batch files loaded by main
  all_policies, policy_groups, master_policies,
  all_procedures, procedure_groups, master_procedures,
  consolidated_controls

consVars == <<batches, all_policies, policy_groups, master_policies,
              all_procedures, procedure_groups, master_procedures,
              consolidated_controls>>
mainVars == <<batch, d, all_sections, sections_list, printed, returned, parked, consVars>>
docVars == <<lines, section_id, section_name, risk_level>>
headVars == <<question_id, selected_option, answered_by, answered_date,
              likelihood, overall_impact>>
bodyVars == <<question_text, help_text, options, comments,
              collecting_question, collecting_options, collecting_comments>>
histVars == <<options_at, starts>>
vars == <<mainVars, pc, docVars, questions, i, j, headVars, bodyVars, histVars>>

Line(n) == lines[n + 1]

\* the dict appended at lines 121-137 and 245-261
QuestionRecord(qid, text, help, opts, lik, imp, sel, com, by, date) ==
  [questionId |-> qid, questionText |-> text, helpText |-> help,
   options |-> opts,
   scoring |-> [likelihood |-> lik, overallImpact |-> imp],
   givenAnswer |-> [selectedOption |-> sel, comments |-> com,
                    answeredBy |-> by, answeredDate |-> date]]

\* a position in the document: line index and token position in the line
At(n, p) == n * 100 + p

\* where the options of the single-line format start in line n (history)
SameLineOptionsAt(line, n) ==
  LET yesP == {p \in 1..Len(line) :
                 "Yes," \in Literals(line[p]) /\ OptionEnd(line, p, YesStops) # 0}
      noP  == {p \in 1..Len(line) :
                 "No," \in Literals(line[p]) /\ OptionEnd(line, p, NoStops) # 0}
  IN  (IF yesP # {} THEN <<At(n, Least(yesP))>> ELSE <<>>)
        \o (IF noP # {} THEN <<At(n, Least(noP))>> ELSE <<>>)
        \o (IF Contains(line, "Not applicable")
              THEN <<At(n, FirstAt(line, "Not applicable", 1))>> ELSE <<>>)

\* --------------------------------------------------------------- documents
\* all sequences over S of length 0..n
SeqsUpTo(S, n) == UNION {[1..m -> S] : m \in 0..n}

\* n copies of a line
Pad(line, n) == [m \in 1..n |-> line]

\* lines of documents of section A in the multi-line format
GeneralLines ==
  { <<"A.1">>,
    <<"A.13.1F", "some prompt", "ending?">>,
    <<"1.", "A.2", "Does", "the organization have", "policy?">>,
    <<"what?">>,
    <<"prose">>,
    <<"Comments">>,
    <<"Data Location:", "x">>,
    <<"Likelihood: 3, Overall impact: 4">> }

GeneralDocs == SeqsUpTo(GeneralLines, MaxLen)

\* documents whose record has question text and then an options part
OptionLines ==
  { <<"Please select", "one of the", "following options">>,
    <<"Help Text", "explain", "Please select", "following options">>,
    <<"Yes,", "we", "have", "a", "program">>,
    <<"No,", "x">>,
    <<"Not applicable">>,
    <<"Show possible answers">>,
    <<"Comments">>,
    <<"A.2">> }

OptionDocs ==
  { head \o tail : head \in { << <<"A.1">> >>, << <<"A.1">>, <<"what?">> >> },
                   tail \in SeqsUpTo(OptionLines, MaxLen) }

\* documents whose marker lines hold text before and after the marker
MarkerLines ==
  { <<"as needed", "Please select", "Yes,", "we", "have">>,
    <<"what?", "Help Text", "explain">>,
    <<"No,", "x">>,
    <<"prose">> }

MarkerDocs ==
  { << <<"A.1">> >> \o tail : tail \in SeqsUpTo(MarkerLines, MaxLen) }

\* documents with lines in which "A." and a qualifier end a longer token, or
\* in which the qualifier begins with a letter
TailLines ==
  { <<"see", "XA.1">>, <<"visit", "USA.GOV">>, <<"open at 9", "A.M.">>,
    <<"what?">>, <<"A.1">> }

TailDocs == SeqsUpTo(TailLines, MaxLen)

\* documents whose lines hold a run of several whitespace characters
SpacedDocs ==
  { << <<"1.", "A.1", "Does", WideSpace, "it?">> >>,
    << <<"A.1">>, <<"prose", WideSpace, "what?">> >> }

\* documents whose record ends with the respondent and the date, on lines of
\* their own, in either order
MetadataDocs ==
  { << <<"A.1">>, <<"what?">>,
       <<"Please select", "one of the", "following options">> >> \o opts \o meta :
      opts \in { << <<"No,", "x">> >>, << <<"No,", "x">>, <<"Not applicable">> >> },
      meta \in { << <<"Answered by:", "Jane", "Doe">>, <<"Date:", "07/12/2024">> >>,
                 << <<"Date:", "07/12/2024">>, <<"Answered by:", "Jane", "Doe">> >> } }

\* one-line documents in the single-line format
SameLineTokens ==
  {"Help Text", "explain", "Please select", "Yes,", "No,", "Not applicable",
   "Show possible answers", "NIST"}

SameLineDocs ==
  { << <<"1.", "A.1", "Does", "it?">> \o rest >> : rest \in SeqsUpTo(SameLineTokens, MaxLen) }

\* documents whose start line holds the selected answer after the question id
AnswerTexts ==
  { <<>>,
    <<"Yes,", "we", "have", "a", "program">>,
    <<"Documented", "program">>,
    <<"Does", "the organization have", "policy?">> }

AnswerDocs ==
  { << <<"A.1">> \o answer \o by, <<"what?">> >> :
      answer \in AnswerTexts,
      by \in { <<>>, <<"Answered by:", "Jane", "Doe">> } }

\* documents of section P
SectionPLines ==
  { <<"P.7">>, <<"what?">>, <<"A.1">>,
    <<"Likelihood: 1, Overall impact: 2">>,
    <<"Likelihood: high, impact: low", "Likelihood: 3, Overall impact: 4">> }

SectionPDocs == SeqsUpTo(SectionPLines, MaxLen)

\* documents longer than the lookahead windows of lines 77 and 148
LongDocs ==
  { << first >> \o << <<"what?">> >> \o Pad(<<"prose">>, n) \o << last >>
      \o << <<"A.2">>, <<"what?">>, <<"Likelihood: 1, Overall impact: 2">> >> :
      first \in { <<"A.1">>, <<"1.", "A.1", "Does", "it?">> },
      n \in {InnerWindow - 4, InnerWindow - 3, InnerWindow - 2,
             ScoringWindow - 3, ScoringWindow - 2, ScoringWindow - 1},
      last \in { <<"Likelihood: 3, Overall impact: 4">>, <<"A.2">> } }

\* the end-to-end scenario
ScenarioDoc ==
  << <<"1.", "A.1", "Does", "the organization have", "policy?">>,
     <<"Please select", "one of the", "following options">>,
     <<"Yes,", "we", "have", "a", "documented policy">>,
     <<"No,", "we", "do not">>,
     <<"Not applicable">>,
     <<"Answered by:", "Jane", "Doe">>,
     <<"Date:", "07/12/2024">> >>

ColonTitle == [form |-> "colon", name |-> "Enterprise Risk Management", risk |-> "High Availability"]
DashTitle == [form |-> "dash", name |-> "Organizational Security", risk |-> "Enhanced"]
PlainTitle == [form |-> "plain", name |-> "Enterprise Risk Management", risk |-> "None"]
OtherTitle == [form |-> "other", name |-> "Survey", risk |-> "None"]

Document(sid, ls, title, exists, readable) ==
  [sid |-> sid, lines |-> ls, title |-> title, exists |-> exists, readable |-> readable]

\* batches of one well-formed document
SingleBatches ==
  { << Document("A", ls, ColonTitle, TRUE, TRUE) >> :
      ls \in GeneralDocs \cup OptionDocs \cup MarkerDocs \cup TailDocs \cup SpacedDocs
               \cup MetadataDocs \cup AnswerDocs
               \cup SameLineDocs
               \cup LongDocs \cup {ScenarioDoc} }
  \cup { << Document("P", ls, ColonTitle, TRUE, TRUE) >> : ls \in SectionPDocs }

\* the documents of the batches of several documents
BatchLines ==
  { << <<"A.1">>, <<"what?">> >>,
    << <<"N.1">>, <<"what?">>, <<"prose">>, <<"N.2">>, <<"what?">> >> }

BatchDocuments ==
  { Document(sid, ls, ColonTitle, TRUE, TRUE) : sid \in {"A", "B", "N"}, ls \in BatchLines }
  \cup { Document("B", << <<"B.1">>, <<"what?">> >>, DashTitle, TRUE, TRUE),
         Document("A", << <<"A.1">>, <<"what?">> >>, PlainTitle, TRUE, TRUE),
         Document("N", << <<"N.1">>, <<"what?">> >>, OtherTitle, TRUE, TRUE),
         Document("A", << <<"A.1">>, <<"what?">> >>, ColonTitle, FALSE, TRUE),
         Document("N", << <<"N.1">>, <<"what?">> >>, ColonTitle, TRUE, FALSE) }

SeveralBatches ==
  UNION {[1..m -> BatchDocuments] : m \in 2..MaxBatch}

\* batches of five documents: four well-formed ones, and at position bad one
\* whose title matches neither pattern
WellFormed(sid) ==
  LET id == CHOOSE r \in IdTokens : r.sec = sid /\ r.qual = "1" /\ r.whole
  IN  Document(sid, << <<id.tok>>, <<"what?">> >>, ColonTitle, TRUE, TRUE)

FiveBatches ==
  { [n \in 1..5 |->
       IF n = bad THEN [WellFormed(sid) EXCEPT !.title = title]
       ELSE WellFormed(<<"A", "B", "N", "P">>[IF n < bad THEN n ELSE n - 1])] :
      bad \in 1..5, sid \in {"T", "N"}, title \in {PlainTitle, OtherTitle} }

Batches == SingleBatches \cup SeveralBatches \cup FiveBatches

\* line 120: if question_text
KeepsSingleLine(text) == text # <<>>

\* line 244 without its test: the record is appended whatever its text
KeepsAnyText(text) == TRUE

\* line 244: if question_text and not question_text.startswith('Data Location')
KeepsMultiLine(text) == text # <<>> /\ ~StartsWith(text, "Data Location")

\* ---------------------------------------------- the locals of an invocation
\* Every variable of the scan is a local of extract_questions_from_section
\* (lines 12-46, 94-146): an invocation owns one copy of each.  A frame is
\* the copy of an invocation that is not running.
RunningFrame ==
  [d |-> d, pc |-> pc, lines |-> lines, section_id |-> section_id,
   section_name |-> section_name, risk_level |-> risk_level,
   questions |-> questions, i |-> i, j |-> j,
   question_id |-> question_id, selected_option |-> selected_option,
   answered_by |-> answered_by, answered_date |-> answered_date,
   likelihood |-> likelihood, overall_impact |-> overall_impact,
   question_text |-> question_text, help_text |-> help_text,
   options |-> options, comments |-> comments,
   collecting_question |-> collecting_question,
   collecting_options |-> collecting_options,
   collecting_comments |-> collecting_comments,
   options_at |-> options_at, starts |-> starts]

\* the frame of an invocation for document n that has not run yet
InitialFrame(n) ==
  [d |-> n, pc |-> "main", lines |-> <<>>, section_id |-> "",
   section_name |-> "", risk_level |-> "",
   questions |-> <<>>, i |-> 0, j |-> 0,
   question_id |-> None, selected_option |-> None,
   answered_by |-> None, answered_date |-> None,
   likelihood |-> NoInt, overall_impact |-> NoInt,
   question_text |-> <<>>, help_text |-> None,
   options |-> <<>>, comments |-> None,
   collecting_question |-> FALSE, collecting_options |-> FALSE,
   collecting_comments |-> FALSE,
   options_at |-> <<>>, starts |-> <<>>]

\* there is no second invocation
NoFrame == [InitialFrame(0) EXCEPT !.pc = "none"]

\* the invocation of frame f runs again: every local but the list of
\* records and its history
ResumeLocals(f) ==
  /\ d' = f.d /\ pc' = f.pc /\ lines' = f.lines /\ section_id' = f.section_id
  /\ section_name' = f.section_name /\ risk_level' = f.risk_level
  /\ i' = f.i /\ j' = f.j
  /\ question_id' = f.question_id /\ selected_option' = f.selected_option
  /\ answered_by' = f.answered_by /\ answered_date' = f.answered_date
  /\ likelihood' = f.likelihood /\ overall_impact' = f.overall_impact
  /\ question_text' = f.question_text /\ help_text' = f.help_text
  /\ options' = f.options /\ comments' = f.comments
  /\ collecting_question' = f.collecting_question
  /\ collecting_options' = f.collecting_options
  /\ collecting_comments' = f.collecting_comments
  /\ options_at' = f.options_at

\* line 36 with `questions` shared by the invocations: the list is not part
\* of the frame
ResumeSharingQuestions(f) ==
  /\ ResumeLocals(f)
  /\ UNCHANGED <<questions, starts>>

\* the invocation of frame f runs again with all its locals
Resume(f) ==
  /\ ResumeLocals(f)
  /\ questions' = f.questions /\ starts' = f.starts

\* line 185 without its test: a '?' does not end the question text
QuestionMarkNeverEnds(next_line) == FALSE

\* line 185: if '?' in next_line
QuestionMarkEnds(next_line) == Contains(next_line, "?")

\* line 189 without its test: the options block runs for every line
InOptionsPartAlways(next_line) == TRUE

\* line 189: if collecting_options or 'Please select' in next_line
InOptionsPart(next_line) == collecting_options \/ Contains(next_line, "Please select")

\* ------------------------------------------------------------------ actions
\* the locals of extract_questions_from_section before a record is opened
ResetRecord ==
  /\ question_id' = None /\ selected_option' = None
  /\ answered_by' = None /\ answered_date' = None
  /\ likelihood' = NoInt /\ overall_impact' = NoInt
  /\ question_text' = <<>> /\ help_text' = None /\ options' = <<>>
  /\ comments' = None
  /\ collecting_question' = FALSE /\ collecting_options' = FALSE
  /\ collecting_comments' = FALSE
  /\ options_at' = <<>>

\* main, lines 308-312: the file of the next document does not exist
MainFileNotFound ==
  /\ pc = "main" /\ d <= Len(batch)
  /\ ~batch[d].exists
  /\ printed' = Append(printed, <<"File not found", d>>)
  /\ returned' = Append(returned, <<>>)
  /\ d' = d + 1
  /\ UNCHANGED <<consVars, batch, all_sections, sections_list, parked, pc, docVars, questions,
                 i, j, headVars, bodyVars, histVars>>

\* lines 12-14 raise and no except clause catches: main ends at the exception
ExtractRaisesEscapes ==
  /\ pc = "main" /\ d <= Len(batch)
  /\ batch[d].exists /\ ~batch[d].readable
  /\ pc' = "done"
  /\ UNCHANGED <<mainVars, docVars, questions, i, j, headVars, bodyVars, histVars>>

\* lines 12-14 raise, lines 275-279 catch and return None, line 317 skips
ExtractRaises ==
  /\ pc = "main" /\ d <= Len(batch)
  /\ batch[d].exists /\ ~batch[d].readable
  /\ printed' = Append(printed, <<"Error processing", d>>)
  /\ returned' = Append(returned, <<>>)
  /\ d' = d + 1
  /\ UNCHANGED <<consVars, batch, all_sections, sections_list, parked, pc, docVars, questions,
                 i, j, headVars, bodyVars, histVars>>

\* lines 12-37 with `questions` living outside the call: the list of line 36
\* is not made anew for the document
ExtractBeginKeepsQuestions ==
  /\ pc = "main" /\ d <= Len(batch)
  /\ batch[d].exists /\ batch[d].readable
  /\ lines' = batch[d].lines
  /\ section_id' = batch[d].sid
  /\ IF TitleMatches(batch[d].title)
       THEN section_name' = batch[d].title.name /\ risk_level' = batch[d].title.risk
       ELSE section_name' = "Unknown" /\ risk_level' = "None"
  /\ UNCHANGED <<questions, starts>>
  /\ i' = 0 /\ j' = 0
  /\ ResetRecord
  /\ pc' = "outer"
  /\ UNCHANGED mainVars

\* lines 12-37: the document is read, its title parsed, the scan starts
ExtractBegin ==
  /\ pc = "main" /\ d <= Len(batch)
  /\ batch[d].exists /\ batch[d].readable
  /\ lines' = batch[d].lines
  /\ section_id' = batch[d].sid
  /\ IF TitleMatches(batch[d].title)
       THEN section_name' = batch[d].title.name /\ risk_level' = batch[d].title.risk
       ELSE section_name' = "Unknown" /\ risk_level' = "None"
  /\ questions' = <<>> /\ starts' = <<>>
  /\ i' = 0 /\ j' = 0
  /\ ResetRecord
  /\ pc' = "outer"
  /\ UNCHANGED mainVars

\* lines 39-44 and 266: the line at the cursor opens no record
OuterSkip ==
  /\ pc = "outer" /\ i < Len(lines)
  /\ ~IsQuestionStart(Line(i), section_id)
  /\ i' = i + 1
  /\ UNCHANGED <<mainVars, pc, docVars, questions, j, headVars, bodyVars, histVars>>

\* lines 44-91: the header of the record opened at line i
OpenHeader ==
  LET line == Line(i)
      qnum == QNum(line, section_id)
      score == ScoringLookahead(lines, i)
  IN  /\ question_id' = QuestionId(section_id, qnum)
      /\ selected_option' = SelectedOption(line, section_id, qnum)
      /\ answered_by' = AnsweredBy(line)
      /\ answered_date' = AnsweredDate(line)
      /\ likelihood' = score[1]
      /\ overall_impact' = score[2]

\* lines 44-140: a record in the single-line format
OpenSingleLine ==
  /\ pc = "outer" /\ i < Len(lines)
  /\ IsQuestionStart(Line(i), section_id)
  /\ SameLineMatch(Line(i), section_id, QNum(Line(i), section_id)) # None
  /\ OpenHeader
  /\ question_text' = Strip(SameLineMatch(Line(i), section_id, QNum(Line(i), section_id)))
  /\ help_text' = SameLineHelp(Line(i))
  /\ options' = SameLineOptions(Line(i))
  /\ options_at' = SameLineOptionsAt(Line(i), i)
  /\ comments' = None
  /\ IF KeepsSingleLine(question_text')
       THEN /\ questions' = Append(questions,
                 QuestionRecord(question_id', question_text', help_text', options',
                                likelihood', overall_impact', selected_option',
                                comments', answered_by', answered_date'))
            /\ starts' = Append(starts, [start |-> i, format |-> "single",
                                         end |-> i + 1, optionsAt |-> options_at'])
       ELSE UNCHANGED <<questions, starts>>
  /\ i' = i + 1
  /\ UNCHANGED <<mainVars, pc, docVars, j, collecting_question,
                 collecting_options, collecting_comments>>

\* lines 44-146: a record in the multi-line format is opened
OpenMultiLine ==
  /\ pc = "outer" /\ i < Len(lines)
  /\ IsQuestionStart(Line(i), section_id)
  /\ SameLineMatch(Line(i), section_id, QNum(Line(i), section_id)) = None
  /\ OpenHeader
  /\ question_text' = <<>> /\ help_text' = None /\ options' = <<>>
  /\ comments' = None /\ options_at' = <<>>
  /\ j' = i + 1
  /\ collecting_question' = TRUE
  /\ collecting_options' = FALSE
  /\ collecting_comments' = FALSE
  /\ pc' = "inner"
  /\ UNCHANGED <<mainVars, docVars, questions, i, starts>>

\* line 148: while j < len(lines) and j < i + 40
InnerLoopRuns == j < Len(lines) /\ j < i + InnerWindow

\* line 152 without `and j > i + 2`: any line that starts a question stops
HitsNextQuestionAnywhere ==
  IsQuestionStart(Line(j), section_id)

\* lines 151-153: stop if we hit another question
HitsNextQuestion ==
  IsQuestionStart(Line(j), section_id) /\ j > i + BoundarySlack

\* lines 155-157: stop at certain markers
HitsEndMarker ==
  StartsWith(Line(j), "Data Location:") \/ StartsWith(Line(j), "Create a new task")

InnerBody == pc = "inner" /\ InnerLoopRuns /\ ~HitsNextQuestion /\ ~HitsEndMarker

\* lines 160-171: question text ends at a line holding 'Help Text'
InnerHelpText ==
  /\ InnerBody
  /\ collecting_question /\ Contains(Line(j), "Help Text")
  /\ question_text' = question_text \o Strip(SplitHead(Line(j), "Help Text"))
  /\ collecting_question' = FALSE
  /\ LET remaining == Strip(SplitSecond(Line(j), "Help Text"))
     IN  help_text' =
           IF remaining # <<>> /\ ~StartsWith(remaining, "Please select")
             THEN IF Contains(remaining, "Please select")
                    THEN Strip(SplitHead(remaining, "Please select"))
                    ELSE remaining
             ELSE help_text
  /\ j' = j + 1
  /\ UNCHANGED <<mainVars, pc, docVars, questions, i, headVars, options, comments,
                 collecting_options, collecting_comments, histVars>>

\* lines 173-180: question text ends at a line holding 'Please select'
InnerPleaseSelect ==
  /\ InnerBody
  /\ collecting_question /\ ~Contains(Line(j), "Help Text")
  /\ Contains(Line(j), "Please select")
  /\ question_text' = question_text \o Strip(SplitHead(Line(j), "Please select"))
  /\ collecting_question' = FALSE
  /\ collecting_options' = TRUE
  /\ j' = j + 1
  /\ UNCHANGED <<mainVars, pc, docVars, questions, i, headVars, help_text, options,
                 comments, collecting_comments, histVars>>

\* lines 193-223: what the options block does with next_line; the value is
\* [options, options_at, j]
CollectOption(next_line) ==
  IF StartsWith(next_line, "Yes,") \/ StartsWith(next_line, "No,")
    THEN LET stops == IF StartsWith(next_line, "Yes,")
                        THEN YesContinuationStops ELSE NoContinuationStops
             k == ContinuationEnd(lines, j + 1, stops, section_id)
             opt == JoinLines(lines, j, k)
         IN  IF InOptions(options, opt)
               THEN [options |-> options, options_at |-> options_at, j |-> k - 1]
               ELSE [options |-> Append(options, Strip(opt)),
                     options_at |-> Append(options_at, At(j, 1)), j |-> k - 1]
    ELSE IF next_line = <<"Not applicable">> /\ ~InOptions(options, <<"Not applicable">>)
           THEN [options |-> Append(options, <<"Not applicable">>),
                 options_at |-> Append(options_at, At(j, 1)), j |-> j]
           ELSE [options |-> options, options_at |-> options_at, j |-> j]

\* the line is left where it is
AdvanceInnerStays(jj) == jj

\* line 238: j += 1 ends the iteration of the inner loop
AdvanceInner(jj) == jj + 1

\* lines 182-238: every other line of the record
InnerLine ==
  /\ InnerBody
  /\ ~(collecting_question /\ Contains(Line(j), "Help Text"))
  /\ ~(collecting_question /\ Contains(Line(j), "Please select"))
  /\ LET next_line == Line(j)
         \* lines 183-186
         collects == /\ collecting_question
                     /\ Len(next_line) > 0
                     /\ ~StartsWithAny(next_line, {"Data Location", "Comments", "Likelihood"})
         \* line 189
         inOptions == InOptionsPart(next_line)
         opt == IF inOptions THEN CollectOption(next_line)
                ELSE [options |-> options, options_at |-> options_at, j |-> j]
         \* lines 225-226
         endsOptions == \/ Contains(next_line, "Show possible answers")
                        \/ next_line = <<"Comments">>
     IN  /\ question_text' = IF collects THEN question_text \o next_line ELSE question_text
         /\ collecting_question' =
              IF collects /\ QuestionMarkEnds(next_line) THEN FALSE ELSE collecting_question
         /\ options' = opt.options
         /\ options_at' = opt.options_at
         /\ collecting_options' = (inOptions /\ ~endsOptions)
         /\ collecting_comments' =
              IF next_line = <<"Comments">> THEN TRUE ELSE collecting_comments
         \* lines 231-238
         /\ j' = AdvanceInner(opt.j)
         /\ comments' =
              IF /\ next_line = <<"Comments">>
                 /\ j' < Len(lines)
                 /\ ~StartsWithAny(Line(j'), {"Data Location", "Likelihood"})
                THEN Line(j')
                ELSE comments
  /\ UNCHANGED <<mainVars, pc, docVars, questions, i, headVars, help_text, starts>>

\* lines 148-157 end the inner loop, lines 240-264 close the record
CloseRecord ==
  /\ pc = "inner"
  /\ IF InnerLoopRuns THEN HitsNextQuestion \/ HitsEndMarker ELSE TRUE
  /\ question_text' = CollapseSpaces(Strip(question_text))
  /\ IF KeepsMultiLine(question_text')
       THEN /\ questions' = Append(questions,
                 QuestionRecord(question_id, question_text', help_text, options,
                                likelihood, overall_impact, selected_option,
                                comments, answered_by, answered_date))
            /\ starts' = Append(starts, [start |-> i, format |-> "multi",
                                         end |-> j, optionsAt |-> options_at])
       ELSE UNCHANGED <<questions, starts>>
  /\ i' = j
  /\ pc' = "outer"
  /\ UNCHANGED <<mainVars, docVars, j, headVars, help_text, options, comments,
                 collecting_question, collecting_options, collecting_comments,
                 options_at>>

\* lines 268-273 build the section returned, lines 317-323 of main merge it
MergeReturned ==
  LET section_data == [sectionId |-> section_id, sectionName |-> section_name,
                       riskLevel |-> risk_level, questions |-> questions]
  IN  /\ all_sections' = MergeSection(all_sections, section_data)
      /\ returned' = Append(returned, <<section_data>>)
      /\ printed' = Append(printed,
            <<IF \E n \in 1..Len(all_sections) : all_sections[n].sectionId = section_id
                THEN "Added" ELSE "Extracted", d>>)

\* lines 268-273 return the section, lines 315-323 of main merge it
ExtractReturn ==
  /\ pc = "outer" /\ i >= Len(lines)
  /\ MergeReturned
  /\ d' = d + 1
  /\ pc' = "main"
  /\ UNCHANGED <<consVars, batch, sections_list, parked, docVars, questions, i, j, headVars,
                 bodyVars, histVars>>

\* line 325: the loop of main is over
MainFinish ==
  /\ pc = "main" /\ d > Len(batch)
  /\ sections_list' = SortedBySectionId(all_sections)
  /\ pc' = "done"
  /\ UNCHANGED <<consVars, batch, d, all_sections, printed, returned, parked, docVars,
                 questions, i, j, headVars, bodyVars, histVars>>

\* two invocations of extract_questions_from_section run interleaved: the
\* running one is suspended between two steps and the other one goes on
Yield ==
  /\ pc \in {"outer", "inner"}
  /\ parked.pc # "none"
  /\ parked' = RunningFrame
  /\ Resume(parked)
  /\ UNCHANGED <<consVars, batch, all_sections, sections_list, printed, returned>>

\* lines 268-273 and 317-323 while the other invocation is not over: the
\* results are merged in the order of the documents, as the loop of main
\* merges them, and the other invocation goes on alone
ConcurrentReturn ==
  /\ pc = "outer" /\ i >= Len(lines)
  /\ parked.pc # "none"
  /\ d = Len(returned) + 1
  /\ MergeReturned
  /\ Resume(parked)
  /\ parked' = NoFrame
  /\ UNCHANGED <<consVars, batch, sections_list>>

Next ==
  \/ MainFileNotFound
  \/ ExtractRaises
  \/ ExtractBegin
  \/ OuterSkip
  \/ OpenSingleLine
  \/ OpenMultiLine
  \/ InnerHelpText
  \/ InnerPleaseSelect
  \/ InnerLine
  \/ CloseRecord
  \/ ExtractReturn
  \/ MainFinish

\* the locals before the first document and the empty results of main
\* consolidate_batches.py has not run
ConsolidationIdle ==
  /\ batches = <<>>
  /\ all_policies = <<>> /\ policy_groups = <<>> /\ master_policies = <<>>
  /\ all_procedures = <<>> /\ procedure_groups = <<>> /\ master_procedures = <<>>
  /\ consolidated_controls = <<>>

InitialState ==
  /\ d = 1
  /\ pc = "main"
  /\ all_sections = <<>> /\ sections_list = <<>>
  /\ printed = <<>> /\ returned = <<>>
  /\ lines = <<>> /\ section_id = "" /\ section_name = "" /\ risk_level = ""
  /\ questions = <<>> /\ starts = <<>>
  /\ i = 0 /\ j = 0
  /\ question_id = None /\ selected_option = None
  /\ answered_by = None /\ answered_date = None
  /\ likelihood = NoInt /\ overall_impact = NoInt
  /\ question_text = <<>> /\ help_text = None /\ options = <<>>
  /\ comments = None
  /\ collecting_question = FALSE /\ collecting_options = FALSE
  /\ collecting_comments = FALSE
  /\ options_at = <<>>
  /\ ConsolidationIdle

Init ==
  /\ batch \in Batches
  /\ parked = NoFrame
  /\ InitialState

Spec == Init /\ [][Next]_vars

\* documents scanned by two interleaved invocations
InterleavedDocuments ==
  { Document("A", << <<"A.1">>, <<"prose">>,
                     <<"Please select", "one of the", "following options">>,
                     <<"Yes,", "we", "have", "a", "program">>, <<"No,", "x">> >>,
             ColonTitle, TRUE, TRUE),
    Document("A", << <<"A.1">>, <<"what?", "Help Text", "explain">>, <<"prose">>,
                     <<"A.2">>, <<"what?">> >>, DashTitle, TRUE, TRUE),
    Document("A", << <<"1.", "A.1", "Does", "it?">>, <<"prose">> >>,
             ColonTitle, TRUE, TRUE),
    Document("N", << <<"N.1">>, <<"what?">>, <<"prose">>, <<"N.2">>, <<"what?">> >>,
             ColonTitle, TRUE, TRUE) }

\* the first two documents are scanned by two interleaved invocations, then
\* the same two documents are scanned again, one after the other
InterleavedBatches ==
  { <<x, y, x, y>> : x \in InterleavedDocuments, y \in InterleavedDocuments }

InitInterleaved ==
  /\ batch \in InterleavedBatches
  /\ parked = InitialFrame(2)
  /\ InitialState

NextInterleaved ==
  \/ ExtractBegin
  \/ OuterSkip
  \/ OpenSingleLine
  \/ OpenMultiLine
  \/ InnerHelpText
  \/ InnerPleaseSelect
  \/ InnerLine
  \/ CloseRecord
  \/ Yield
  \/ ConcurrentReturn
  \/ (parked.pc = "none" /\ ExtractReturn)
  \/ MainFinish

SpecInterleaved == InitInterleaved /\ [][NextInterleaved]_vars

\* ------------------------------------------------ the scan, run to its end
\* documents that take every branch of the scan loop
TerminationLines ==
  { <<"A.1">>,
    <<"1.", "A.2", "Does", "the organization have", "policy?">>,
    <<"Help Text", "explain">>,
    <<"Please select", "one of the", "following options">>,
    <<"No,", "x">> }

TerminationBatches ==
  { << Document("A", ls, ColonTitle, TRUE, TRUE) >> :
       ls \in SeqsUpTo(TerminationLines, MaxLen) }

InitTerminates ==
  /\ batch \in TerminationBatches
  /\ parked = NoFrame
  /\ InitialState

NextTerminates ==
  \/ ExtractBegin
  \/ OuterSkip
  \/ OpenSingleLine
  \/ OpenMultiLine
  \/ InnerHelpText
  \/ InnerPleaseSelect
  \/ InnerLine
  \/ CloseRecord
  \/ ExtractReturn
  \/ MainFinish

\* the interpreter runs the next statement of the program whenever there is one
SpecTerminates == InitTerminates /\ [][NextTerminates]_vars /\ WF_vars(NextTerminates)

\* ------------------------------ parse_html_file of parseFordSurvey.py
\* The scan loop of parseFordSurvey.py keeps the record being built in the
\* dict current_question: question_id = None stands for current_question
\* being None, the other fields of the dict are the variables of the same
\* names.  starts holds one entry per opened record, the last entry is the
\* record being built.
parseIdle == <<mainVars, docVars, j, likelihood, overall_impact,
               collecting_question, collecting_comments>>

\* the qualifiers matched by (\d+)
PlainQualifiers == {"1", "2", "7"}

ParseIdToken(tok) ==
  \E r \in IdTokens : r.tok = tok /\ r.whole /\ r.qual \in PlainQualifiers

\* r'^(?:\d+\.\s*)?([A-Z])\.(\d+)$' matches the whole line
ParseQuestionLine(line) ==
  \/ Len(line) = 1 /\ ParseIdToken(line[1])
  \/ Len(line) = 2 /\ IsNumberDot(line[1]) /\ ParseIdToken(line[2])

\* f"{q_match.group(1)}.{q_match.group(2)}"
ParseQuestionId(line) ==
  LET r == CHOOSE r \in IdTokens : r.tok = line[Len(line)]
  IN  QuestionId(r.sec, r.qual)

\* the lines that end the question text
ParseTextStops(next_line) ==
  \/ next_line \in { <<"Help Text">>, <<"Please select">>,
                     <<"Show possible answers">>, <<"Answered by:">> }
  \/ StartsWith(next_line, "Answered by:")
  \/ StartsWith(next_line, "Date:")
  \/ ParseQuestionLine(next_line)

\* the value of i when the loop that collects question_lines is left
RECURSIVE ParseTextEnd(_, _)
ParseTextEnd(ls, n) ==
  IF n >= Len(ls) \/ ParseTextStops(ls[n + 1]) THEN n
  ELSE ParseTextEnd(ls, n + 1)

\* the dict current_question
ParseCurrent ==
  [questionId |-> question_id, questionText |-> question_text,
   helpText |-> help_text, options |-> options,
   givenAnswer |-> [selectedOption |-> selected_option, comments |-> comments,
                    answeredBy |-> answered_by, answeredDate |-> answered_date]]

\* if current_question and current_question.get('questionId'): append
ParseSaved == IF question_id # None THEN Append(questions, ParseCurrent) ELSE questions

\* text in line, for a text that is a sequence of whole tokens
ParseHolds(line, text) ==
  \E p \in 1..Len(line) :
    p + Len(text) - 1 <= Len(line) /\ SubSeq(line, p, p + Len(text) - 1) = text

\* len(option) > 20 and option[:20] in line: of the options the documents
\* can hold only "Yes, we have a program" is longer than 20 characters, and
\* its first 20 characters end inside the token "program"
ParseOptionShown(option, line) ==
  /\ option = <<"Yes,", "we", "have", "a", "program">>
  /\ ParseHolds(line, option)

\* line.replace(lit, '').strip()
ParseWithout(line, lit) == Strip(SelectSeq(line, LAMBDA t : t # lit))

ParseAt == pc = "parse" /\ i < Len(lines)

ParseIsHelp == Line(i) = <<"Help Text">> /\ question_id # None

ParseIsMarker ==
  Contains(Line(i), "Please select") /\ Contains(Line(i), "following options")

ParseIsCollecting == collecting_options /\ question_id # None

ParseIsAnsweredBy == StartsWith(Line(i), "Answered by:") /\ question_id # None

ParseIsDate == StartsWith(Line(i), "Date:") /\ question_id # None

ParseIsComments == Line(i) = <<"Comments">> /\ question_id # None

\* lines 87-124: a question id opens a record, the lines after it are its text
ParseOpenQuestion ==
  /\ ParseAt /\ ParseQuestionLine(Line(i))
  /\ questions' = ParseSaved
  /\ question_id' = ParseQuestionId(Line(i))
  /\ LET stop == ParseTextEnd(lines, i + 1)
     IN  /\ question_text' = Strip(JoinLines(lines, i + 1, stop))
         /\ i' = stop
         /\ starts' = Append(starts, [start |-> i, format |-> "parse",
                                      end |-> stop, optionsAt |-> <<>>])
  /\ help_text' = None /\ options' = <<>> /\ options_at' = <<>>
  /\ selected_option' = None /\ comments' = None
  /\ answered_by' = None /\ answered_date' = None
  /\ UNCHANGED <<parseIdle, pc, collecting_options>>

\* lines 127-132
ParseHelpText ==
  /\ ParseAt /\ ~ParseQuestionLine(Line(i)) /\ ParseIsHelp
  /\ IF /\ i + 1 < Len(lines)
        /\ Line(i + 1) \notin { <<"Please select">>, <<"Show possible answers">> }
       THEN help_text' = Line(i + 1) /\ i' = i + 2
       ELSE help_text' = help_text /\ i' = i + 1
  /\ UNCHANGED <<parseIdle, pc, questions, question_id, selected_option,
                 answered_by, answered_date, question_text, options, comments,
                 collecting_options, options_at, starts>>

\* lines 135-138
ParseOptionsMarker ==
  /\ ParseAt /\ ~ParseQuestionLine(Line(i)) /\ ~ParseIsHelp /\ ParseIsMarker
  /\ collecting_options' = TRUE
  /\ i' = i + 1
  /\ UNCHANGED <<parseIdle, pc, questions, question_id, selected_option,
                 answered_by, answered_date, question_text, help_text, options,
                 comments, options_at, starts>>

\* lines 141-148
ParseCollectOption ==
  /\ ParseAt /\ ~ParseQuestionLine(Line(i)) /\ ~ParseIsHelp /\ ~ParseIsMarker
  /\ ParseIsCollecting
  /\ LET line == Line(i)
     IN  IF \/ StartsWith(line, "Yes,") \/ StartsWith(line, "No,")
            \/ line = <<"Not applicable">>
           THEN /\ options' = Append(options, line)
                /\ options_at' = Append(options_at, i)
                /\ starts' = [starts EXCEPT ![Len(starts)].optionsAt = Append(@, i)]
                /\ i' = i + 1
                /\ UNCHANGED collecting_options
           ELSE IF \/ line \in { <<"Show possible answers">>, <<"Answered by:">> }
                   \/ StartsWith(line, "Answered by:")
                  THEN /\ collecting_options' = FALSE
                       /\ UNCHANGED <<options, options_at, starts, i>>
                  ELSE /\ i' = i + 1
                       /\ UNCHANGED <<options, options_at, starts, collecting_options>>
  /\ UNCHANGED <<parseIdle, pc, questions, question_id, selected_option,
                 answered_by, answered_date, question_text, help_text, comments>>

\* lines 151-158
ParseAnsweredBy ==
  /\ ParseAt /\ ~ParseQuestionLine(Line(i)) /\ ~ParseIsHelp /\ ~ParseIsMarker
  /\ ~ParseIsCollecting /\ ParseIsAnsweredBy
  /\ LET same == ParseWithout(Line(i), "Answered by:")
         next == same = <<>> /\ i + 1 < Len(lines)
         name == IF next THEN Strip(Line(i + 1)) ELSE same
     IN  /\ answered_by' = IF name # <<>> THEN name ELSE None
         /\ i' = IF next THEN i + 2 ELSE i + 1
  /\ UNCHANGED <<parseIdle, pc, questions, question_id, selected_option,
                 answered_date, question_text, help_text, options, comments,
                 collecting_options, options_at, starts>>

\* lines 161-165
ParseDate ==
  /\ ParseAt /\ ~ParseQuestionLine(Line(i)) /\ ~ParseIsHelp /\ ~ParseIsMarker
  /\ ~ParseIsCollecting /\ ~ParseIsAnsweredBy /\ ParseIsDate
  /\ LET date_str == ParseWithout(Line(i), "Date:")
     IN  answered_date' = IF date_str # <<>> THEN date_str ELSE None
  /\ i' = i + 1
  /\ UNCHANGED <<parseIdle, pc, questions, question_id, selected_option,
                 answered_by, question_text, help_text, options, comments,
                 collecting_options, options_at, starts>>

\* lines 168-173
ParseComments ==
  /\ ParseAt /\ ~ParseQuestionLine(Line(i)) /\ ~ParseIsHelp /\ ~ParseIsMarker
  /\ ~ParseIsCollecting /\ ~ParseIsAnsweredBy /\ ~ParseIsDate /\ ParseIsComments
  /\ IF /\ i + 1 < Len(lines)
        /\ Line(i + 1) \notin { <<"Data Location:">>, <<"Answered by:">> }
       THEN comments' = Line(i + 1) /\ i' = i + 2
       ELSE comments' = comments /\ i' = i + 1
  /\ UNCHANGED <<parseIdle, pc, questions, question_id, selected_option,
                 answered_by, answered_date, question_text, help_text, options,
                 collecting_options, options_at, starts>>

\* lines 176-183: any other line may show the selected option
ParseOtherLine ==
  /\ ParseAt /\ ~ParseQuestionLine(Line(i)) /\ ~ParseIsHelp /\ ~ParseIsMarker
  /\ ~ParseIsCollecting /\ ~ParseIsAnsweredBy /\ ~ParseIsDate /\ ~ParseIsComments
  /\ LET shown == {n \in 1..Len(options) : ParseOptionShown(options[n], Line(i))}
     IN  selected_option' = IF question_id # None /\ shown # {}
                              THEN options[Least(shown)] ELSE selected_option
  /\ i' = i + 1
  /\ UNCHANGED <<parseIdle, pc, questions, question_id, answered_by,
                 answered_date, question_text, help_text, options, comments,
                 collecting_options, options_at, starts>>

\* lines 185-194: the last record is saved and the section is returned
ParseFinish ==
  /\ pc = "parse" /\ i >= Len(lines)
  /\ questions' = ParseSaved
  /\ pc' = "parsed"
  /\ UNCHANGED <<parseIdle, i, question_id, selected_option, answered_by,
                 answered_date, question_text, help_text, options, comments,
                 collecting_options, options_at, starts>>

\* lines of documents in the format parseFordSurvey.py reads
ParseLines ==
  { <<"A.1">>,
    <<"what?">>,
    <<"Help Text">>,
    <<"Please select", "one of the", "following options">>,
    <<"No,", "x">>,
    <<"Date:", "07/12/2024">> }

ParseScenarioDocs ==
  { << <<"A.1">>, <<"what?">>, <<"Help Text">>, <<"prose">>,
       <<"Please select", "one of the", "following options">>,
       <<"Yes,", "we", "have", "a", "program">>, <<"No,", "x">>,
       <<"Show possible answers">>,
       <<"Yes,", "we", "have", "a", "program">>,
       <<"Comments">>, <<"prose">>,
       <<"Answered by:", "Jane", "Doe">>, <<"Date:", "07/12/2024">>,
       <<"1.", "A.2">>, <<"what?">>, <<"Answered by:">>, <<"Jane", "Doe">> >>,
    << <<"A.1">>, <<"Help Text">>, <<"Show possible answers">>,
       <<"Comments">>, <<"Answered by:">> >> }

ParseDocs == SeqsUpTo(ParseLines, MaxLen + 1) \cup ParseScenarioDocs

InitParse ==
  /\ batch = <<>> /\ parked = NoFrame
  /\ d = 1
  /\ all_sections = <<>> /\ sections_list = <<>>
  /\ printed = <<>> /\ returned = <<>>
  /\ lines \in ParseDocs
  /\ section_id = "A" /\ section_name = "" /\ risk_level = ""
  /\ pc = "parse"
  /\ questions = <<>> /\ starts = <<>>
  /\ i = 0 /\ j = 0
  /\ question_id = None /\ selected_option = None
  /\ answered_by = None /\ answered_date = None
  /\ likelihood = NoInt /\ overall_impact = NoInt
  /\ question_text = <<>> /\ help_text = None /\ options = <<>>
  /\ comments = None
  /\ collecting_question = FALSE /\ collecting_options = FALSE
  /\ collecting_comments = FALSE
  /\ options_at = <<>>
  /\ ConsolidationIdle

NextParse ==
  \/ ParseOpenQuestion
  \/ ParseHelpText
  \/ ParseOptionsMarker
  \/ ParseCollectOption
  \/ ParseAnsweredBy
  \/ ParseDate
  \/ ParseComments
  \/ ParseOtherLine
  \/ ParseFinish

SpecParse == InitParse /\ [][NextParse]_vars

\* ------------------------ parse_html_file of parseFordSurveyImproved.py
\* The scan of parseFordSurveyImproved.py over all_lines (the variable
\* lines): pc = "scan" is the outer loop (line 95), pc = "look" the inner
\* loop (line 116).  question_text is ' '.join(question_text_lines).  starts
\* gets an entry for every line the outer loop opens a record at.
improvedIdle == <<mainVars, docVars, likelihood, overall_impact,
                  collecting_comments, options_at>>

\* rf'^.*?{section_id}\.(\d+)\s+(.+)$': the positions of the tokens that end
\* with "<section_id>.<digits>" and are followed by more text
ImprovedIdsAt(line, sid) ==
  {p \in 1..(Len(line) - 1) :
     \E r \in IdTokens : r.tok = line[p] /\ r.sec = sid /\ r.qual \in PlainQualifiers}

\* question_pattern.match(line)
ImprovedQuestionMatch(line, sid) == ImprovedIdsAt(line, sid) # {}

\* f"{section_id}.{q_match.group(1)}"
ImprovedQuestionId(line, sid) ==
  LET tok == line[Least(ImprovedIdsAt(line, sid))]
      r == CHOOSE r \in IdTokens : r.tok = tok
  IN  QuestionId(sid, r.qual)

\* r'Answered by:\s*([^0-9\n]+)': the text after the literal up to the first
\* digit; the value is None when nothing follows the literal
ImprovedAnsweredByName(line) ==
  LET p == Least({q \in 1..Len(line) : "Answered by:" \in Literals(line[q])})
      stop == Least({q \in (p + 1)..(Len(line) + 1) :
                       q = Len(line) + 1 \/ ~IsAlpha(line[q])})
  IN  IF stop > p + 1 THEN SubSeq(line, p + 1, stop - 1) ELSE None

\* r'(\d{2}/\d{2}/\d{4})' searched in the line, or None
ImprovedDateIn(line) ==
  LET P == {p \in 1..Len(line) : IsDate(line[p])}
  IN  IF P = {} THEN None ELSE <<line[Least(P)]>>

Placeholder == <<"Question text not found">>

\* the placeholder is used whenever no question line was collected
ImprovedQuestionTextNoFallback(text, ii) ==
  IF text # <<>> THEN text ELSE Placeholder

\* lines 201-211: the collected text, else line i + 1, else the placeholder
ImprovedQuestionText(text, ii) ==
  LET found == IF text = <<>> /\ ii + 1 < Len(lines) THEN Line(ii + 1) ELSE text
  IN  IF found # <<>> THEN found ELSE Placeholder

\* lines 210-221: the dict appended to questions
ImprovedRecord ==
  [questionId |-> question_id,
   questionText |-> ImprovedQuestionText(Strip(question_text), i),
   helpText |-> help_text, options |-> options,
   givenAnswer |-> [selectedOption |-> selected_option, comments |-> comments,
                    answeredBy |-> answered_by, answeredDate |-> answered_date]]

\* lines 95-98, 226: a line that holds no question id is skipped
ImprovedSkip ==
  /\ pc = "scan" /\ i < Len(lines)
  /\ ~ImprovedQuestionMatch(Line(i), section_id)
  /\ i' = i + 1
  /\ UNCHANGED <<improvedIdle, pc, questions, j, question_id, selected_option,
                 answered_by, answered_date, question_text, help_text, options,
                 comments, collecting_question, collecting_options, starts>>

\* lines 99-114: a record is opened
ImprovedOpen ==
  /\ pc = "scan" /\ i < Len(lines)
  /\ ImprovedQuestionMatch(Line(i), section_id)
  /\ question_id' = ImprovedQuestionId(Line(i), section_id)
  /\ question_text' = <<>> /\ help_text' = None /\ options' = <<>>
  /\ answered_by' = None /\ answered_date' = None
  /\ comments' = None /\ selected_option' = None
  /\ j' = i + 1
  /\ collecting_question' = TRUE
  /\ collecting_options' = FALSE
  /\ starts' = Append(starts, [start |-> i, format |-> "improved",
                               end |-> i, optionsAt |-> <<>>])
  /\ pc' = "look"
  /\ UNCHANGED <<improvedIdle, questions, i>>

\* line 116: look ahead up to 50 lines
ImprovedWindow == 50

\* line 116: while j < len(all_lines) and j < i + 50
ImprovedLoopRuns == j < Len(lines) /\ j < i + ImprovedWindow

\* line 120: stop if we hit another question
ImprovedHitsQuestion == ImprovedQuestionMatch(Line(j), section_id)

ImprovedBody == pc = "look" /\ ImprovedLoopRuns /\ ~ImprovedHitsQuestion

ImprovedIsHelp == Line(j) = <<"Help Text">>

ImprovedIsMarker ==
  Contains(Line(j), "Please select") /\ Contains(Line(j), "following options")

ImprovedIsAnsweredBy == Contains(Line(j), "Answered by:")

ImprovedIsDate == Contains(Line(j), "Date:") \/ ImprovedDateIn(Line(j)) # None

ImprovedIsComments == Line(j) = <<"Comments">>

ImprovedIsDataLocation == StartsWith(Line(j), "Data Location:")

\* lines 124-133
ImprovedHelpText ==
  /\ ImprovedBody /\ ImprovedIsHelp
  /\ collecting_question' = FALSE
  /\ IF j + 1 < Len(lines) /\ ~Contains(Line(j + 1), "Please select")
       THEN help_text' = Line(j + 1) /\ j' = j + 2
       ELSE help_text' = help_text /\ j' = j + 1
  /\ UNCHANGED <<improvedIdle, pc, questions, i, question_id, selected_option,
                 answered_by, answered_date, question_text, options, comments,
                 collecting_options, starts>>

\* lines 136-140
ImprovedOptionsMarker ==
  /\ ImprovedBody /\ ~ImprovedIsHelp /\ ImprovedIsMarker
  /\ collecting_question' = FALSE
  /\ collecting_options' = TRUE
  /\ j' = j + 1
  /\ UNCHANGED <<improvedIdle, pc, questions, i, question_id, selected_option,
                 answered_by, answered_date, question_text, help_text, options,
                 comments, starts>>

\* lines 143-152
ImprovedCollectOption ==
  /\ ImprovedBody /\ ~ImprovedIsHelp /\ ~ImprovedIsMarker
  /\ collecting_options
  /\ LET next_line == Line(j)
     IN  IF \/ StartsWith(next_line, "Yes,") \/ StartsWith(next_line, "No,")
            \/ next_line = <<"Not applicable">>
           THEN /\ options' = Append(options, next_line)
                /\ starts' = [starts EXCEPT ![Len(starts)].optionsAt = Append(@, j)]
                /\ UNCHANGED collecting_options
           ELSE /\ collecting_options' =
                     (next_line \notin { <<"Show possible answers">>, <<"Answered by:">>,
                                         <<"Date:">>, <<"Comments">>, <<"Data Location:">> })
                /\ UNCHANGED <<options, starts>>
  /\ j' = j + 1
  /\ UNCHANGED <<improvedIdle, pc, questions, i, question_id, selected_option,
                 answered_by, answered_date, question_text, help_text, comments,
                 collecting_question>>

\* lines 155-162
ImprovedAnsweredBy ==
  /\ ImprovedBody /\ ~ImprovedIsHelp /\ ~ImprovedIsMarker /\ ~collecting_options
  /\ ImprovedIsAnsweredBy
  /\ collecting_question' = FALSE
  /\ answered_by' = IF ImprovedAnsweredByName(Line(j)) # None
                      THEN Strip(ImprovedAnsweredByName(Line(j))) ELSE answered_by
  /\ j' = j + 1
  /\ UNCHANGED <<improvedIdle, pc, questions, i, question_id, selected_option,
                 answered_date, question_text, help_text, options, comments,
                 collecting_options, starts>>

\* lines 165-170
ImprovedDate ==
  /\ ImprovedBody /\ ~ImprovedIsHelp /\ ~ImprovedIsMarker /\ ~collecting_options
  /\ ~ImprovedIsAnsweredBy /\ ImprovedIsDate
  /\ answered_date' = IF ImprovedDateIn(Line(j)) # None
                        THEN ImprovedDateIn(Line(j)) ELSE answered_date
  /\ j' = j + 1
  /\ UNCHANGED <<improvedIdle, pc, questions, i, question_id, selected_option,
                 answered_by, question_text, help_text, options, comments,
                 collecting_question, collecting_options, starts>>

\* lines 173-180
ImprovedComments ==
  /\ ImprovedBody /\ ~ImprovedIsHelp /\ ~ImprovedIsMarker /\ ~collecting_options
  /\ ~ImprovedIsAnsweredBy /\ ~ImprovedIsDate /\ ImprovedIsComments
  /\ IF /\ j + 1 < Len(lines)
        /\ Line(j + 1) \notin { <<"Data Location:">>, <<"Terms of Use">> }
       THEN comments' = Line(j + 1) /\ j' = j + 2
       ELSE comments' = comments /\ j' = j + 1
  /\ UNCHANGED <<improvedIdle, pc, questions, i, question_id, selected_option,
                 answered_by, answered_date, question_text, help_text, options,
                 collecting_question, collecting_options, starts>>

\* lines 187-198: any other line; it is question text while the question is
\* being collected
ImprovedLine ==
  /\ ImprovedBody /\ ~ImprovedIsHelp /\ ~ImprovedIsMarker /\ ~collecting_options
  /\ ~ImprovedIsAnsweredBy /\ ~ImprovedIsDate /\ ~ImprovedIsComments
  /\ ~ImprovedIsDataLocation
  /\ LET next_line == Line(j)
         collects == /\ collecting_question
                     /\ next_line \notin { <<"Help Text">>, <<"Comments">>,
                                           <<"Data Location:">>,
                                           <<"Show possible answers">> }
     IN  /\ question_text' = IF collects THEN question_text \o next_line
                             ELSE question_text
         /\ collecting_question' =
              IF collects /\ Contains(next_line, "?") THEN FALSE
              ELSE collecting_question
  /\ j' = j + 1
  /\ UNCHANGED <<improvedIdle, pc, questions, i, question_id, selected_option,
                 answered_by, answered_date, help_text, options, comments,
                 collecting_options, starts>>

\* lines 116-121, 183-184 end the inner loop, lines 201-224 emit the record
ImprovedClose ==
  /\ pc = "look"
  /\ IF ImprovedLoopRuns
       THEN \/ ImprovedHitsQuestion
            \/ /\ ~ImprovedIsHelp /\ ~ImprovedIsMarker /\ ~collecting_options
               /\ ~ImprovedIsAnsweredBy /\ ~ImprovedIsDate /\ ~ImprovedIsComments
               /\ ImprovedIsDataLocation
       ELSE TRUE
  /\ questions' = Append(questions, ImprovedRecord)
  /\ starts' = [starts EXCEPT ![Len(starts)].end = j]
  /\ i' = j
  /\ pc' = "scan"
  /\ UNCHANGED <<improvedIdle, j, question_id, selected_option, answered_by,
                 answered_date, question_text, help_text, options, comments,
                 collecting_question, collecting_options>>

\* lines 228-233: the section is returned
ImprovedFinish ==
  /\ pc = "scan" /\ i >= Len(lines)
  /\ pc' = "returned"
  /\ UNCHANGED <<improvedIdle, questions, i, j, question_id, selected_option,
                 answered_by, answered_date, question_text, help_text, options,
                 comments, collecting_question, collecting_options, starts>>

\* lines of documents in the format parseFordSurveyImproved.py reads
ImprovedLines ==
  { <<"1.", "A.1", "text">>,
    <<"A.2">>,
    <<"what?">>,
    <<"Help Text">>,
    <<"Please select", "one of the", "following options">>,
    <<"No,", "x">>,
    <<"Comments">>,
    <<"Data Location:", "x">> }

ImprovedScenarioDocs ==
  { << <<"1.", "A.1", "text">>, <<"prose">>, <<"what?">>, <<"Help Text">>,
       <<"prose">>, <<"Please select", "one of the", "following options">>,
       <<"Yes,", "we", "have", "a", "program">>, <<"Not applicable">>,
       <<"Show possible answers">>, <<"Answered by:", "Jane", "Doe">>,
       <<"Date:", "07/12/2024">>, <<"Comments">>, <<"prose">>,
       <<"Data Location:", "x">>,
       <<"XA.1", "text">>, <<"Answered by:">>, <<"07/12/2024">> >> }

ImprovedDocs == SeqsUpTo(ImprovedLines, MaxLen) \cup ImprovedScenarioDocs

InitImproved ==
  /\ batch = <<>> /\ parked = NoFrame
  /\ d = 1
  /\ all_sections = <<>> /\ sections_list = <<>>
  /\ printed = <<>> /\ returned = <<>>
  /\ lines \in ImprovedDocs
  /\ section_id = "A" /\ section_name = "" /\ risk_level = ""
  /\ pc = "scan"
  /\ questions = <<>> /\ starts = <<>>
  /\ i = 0 /\ j = 0
  /\ question_id = None /\ selected_option = None
  /\ answered_by = None /\ answered_date = None
  /\ likelihood = NoInt /\ overall_impact = NoInt
  /\ question_text = <<>> /\ help_text = None /\ options = <<>>
  /\ comments = None
  /\ collecting_question = FALSE /\ collecting_options = FALSE
  /\ collecting_comments = FALSE
  /\ options_at = <<>>
  /\ ConsolidationIdle

NextImproved ==
  \/ ImprovedSkip
  \/ ImprovedOpen
  \/ ImprovedHelpText
  \/ ImprovedOptionsMarker
  \/ ImprovedCollectOption
  \/ ImprovedAnsweredBy
  \/ ImprovedDate
  \/ ImprovedComments
  \/ ImprovedLine
  \/ ImprovedClose
  \/ ImprovedFinish

SpecImproved == InitImproved /\ [][NextImproved]_vars

\* ------------------------------------------------ consolidate_batches.py
\* A policy or procedure of a control is kept by its name; of the dict built
\* by extract_all_policies the model keeps controlId, name and family, and
\* adds `at`, the position of the reference in the list (the identity of the
\* dict).  description, rationale, frequency and freshnessThreshold are copied
\* through by the code and take part in no decision.
MaxControls == 3

\* the names of the documents, in the order of sorted()
PolicyNames ==
  << "Access Control Policies", "Access Control Policy", "Access rules policy",
     "Audit Policy", "Audit and Accountability Policy" >>

ProcedureNames ==
  << "Account removal procedure", "Account review procedure",
     "Account review procedures", "Backup procedure" >>

NameOrder == PolicyNames \o ProcedureNames

\* the control ids of the documents, in the order of sorted()
ControlOrder == << "AC-1", "AC-2", "AU-1" >>

\* SequenceMatcher(None, a.lower(), b.lower()).ratio() in thousandths, rounded
\* down (the one value 800 of the table is the ratio 0.8 exactly)
similar(a, b) ==
  IF a = b THEN 1000
  ELSE CASE {a, b} = {"Access Control Policy", "Access Control Policies"} -> 909
         [] {a, b} = {"Access Control Policy", "Access rules policy"} -> 800
         [] {a, b} = {"Access Control Policy", "Audit Policy"} -> 545
         [] {a, b} = {"Access Control Policy", "Audit and Accountability Policy"} -> 538
         [] {a, b} = {"Access Control Policies", "Access rules policy"} -> 714
         [] {a, b} = {"Access Control Policies", "Audit Policy"} -> 457
         [] {a, b} = {"Access Control Policies", "Audit and Accountability Policy"} -> 481
         [] {a, b} = {"Access rules policy", "Audit Policy"} -> 580
         [] {a, b} = {"Access rules policy", "Audit and Accountability Policy"} -> 480
         [] {a, b} = {"Audit Policy", "Audit and Accountability Policy"} -> 558
         [] {a, b} = {"Account review procedure", "Account review procedures"} -> 979
         [] {a, b} = {"Account review procedure", "Backup procedure"} -> 650
         [] {a, b} = {"Account review procedure", "Account removal procedure"} -> 857
         [] {a, b} = {"Account review procedures", "Backup procedure"} -> 634
         [] {a, b} = {"Account review procedures", "Account removal procedure"} -> 840
         [] {a, b} = {"Backup procedure", "Account removal procedure"} -> 634
         [] OTHER -> 0

\* the words standardize_policy_name looks for that name.lower() holds
NameWords(name) ==
  CASE name = "Access Control Policy" -> {"policy", "access"}
    [] name = "Access Control Policies" -> {"policies", "access"}
    [] name = "Access rules policy" -> {"policy", "access"}
    [] name = "Audit Policy" -> {"policy", "audit"}
    [] name = "Audit and Accountability Policy" -> {"policy", "audit", "accountability"}
    [] name = "Backup procedure" -> {"backup"}
    [] OTHER -> {}

\* family.lower()
Lower(family) ==
  CASE family = "AC" -> "ac" [] family = "AU" -> "au" [] OTHER -> family

\* lines 71-90: family_policies
FamilyPolicies ==
  [ac |-> "Access Control Policy",
   at |-> "Awareness and Training Policy",
   au |-> "Audit and Accountability Policy",
   ca |-> "Assessment, Authorization, and Monitoring Policy",
   cm |-> "Configuration Management Policy",
   cp |-> "Contingency Planning Policy",
   ia |-> "Identification and Authentication Policy",
   ir |-> "Incident Response Policy",
   ma |-> "Maintenance Policy",
   mp |-> "Media Protection Policy",
   pe |-> "Physical and Environmental Protection Policy",
   pl |-> "Planning Policy",
   ps |-> "Personnel Security Policy",
   ra |-> "Risk Assessment Policy",
   sa |-> "System and Services Acquisition Policy",
   sc |-> "System and Communications Protection Policy",
   si |-> "System and Information Integrity Policy",
   sr |-> "Supply Chain Risk Management Policy"]

\* lines 93-130: the test of the branch of the family
FamilyWordsIn(fam, has) ==
  CASE fam = "ac" -> "access" \in has
    [] fam = "at" -> "training" \in has \/ "awareness" \in has
    [] fam = "au" -> "audit" \in has \/ "accountability" \in has
    [] fam = "ca" -> "assessment" \in has \/ "authorization" \in has
    [] fam = "cm" -> "configuration" \in has
    [] fam = "cp" -> "contingency" \in has
    [] fam = "ia" -> "identification" \in has \/ "authentication" \in has
    [] fam = "ir" -> "incident" \in has /\ "response" \in has
    [] fam = "ma" -> "maintenance" \in has
    [] fam = "mp" -> "media" \in has
    [] fam = "pe" -> "physical" \in has \/ "environmental" \in has
    [] fam = "pl" -> "planning" \in has
    [] fam = "ps" -> "personnel" \in has
    [] fam = "ra" -> "risk" \in has
    [] fam = "sa" -> "acquisition" \in has \/ "services" \in has
    [] fam = "sc" -> "communications" \in has \/ "protection" \in has
    [] fam = "si" -> "integrity" \in has \/ "information" \in has
    [] fam = "sr" -> "supply" \in has
    [] OTHER -> FALSE

\* lines 66-167
standardize_policy_name(name, family) ==
  LET has == NameWords(name)
      fam == Lower(family)
  IN  IF /\ fam \in DOMAIN FamilyPolicies
         /\ ("policy" \in has \/ "policies" \in has)
         /\ FamilyWordsIn(fam, has)
        THEN FamilyPolicies[fam]
      ELSE IF "incident response" \in has /\ "plan" \in has THEN "Incident Response Plan"
      ELSE IF "contingency" \in has /\ "plan" \in has THEN "Contingency Plan"
      ELSE IF "system security" \in has /\ "plan" \in has THEN "System Security Plan"
      ELSE IF "configuration management" \in has /\ "plan" \in has
        THEN "Configuration Management Plan"
      ELSE IF "security assessment" \in has /\ "plan" \in has
        THEN "Security Assessment Plan"
      ELSE IF "security awareness" \in has \/ ("security" \in has /\ "training" \in has)
        THEN "Security Awareness Training Policy"
      ELSE IF "risk management" \in has THEN "Risk Management Policy"
      ELSE IF "acceptable use" \in has THEN "Acceptable Use Policy"
      ELSE IF "remote access" \in has THEN "Remote Access Policy"
      ELSE IF "mobile device" \in has THEN "Mobile Device Policy"
      ELSE IF "password" \in has \/ "authenticator" \in has
        THEN "Password and Authenticator Management Policy"
      ELSE IF "encryption" \in has \/ "cryptographic" \in has
        THEN "Cryptographic Controls Policy"
      ELSE IF "data classification" \in has THEN "Data Classification Policy"
      ELSE IF "data retention" \in has THEN "Data Retention Policy"
      ELSE IF "backup" \in has /\ "recovery" \in has THEN "Backup and Recovery Policy"
      ELSE name

\* the elements of a sequence, one after the other
RECURSIVE Flatten(_)
Flatten(seqs) == IF seqs = <<>> THEN <<>> ELSE Head(seqs) \o Flatten(Tail(seqs))

\* the controls of all batches, in the order of the two loops
AllControls(bs) == Flatten([b \in 1..Len(bs) |-> bs[b].controls])

\* lines 30-46 and 48-64: one reference per name of every control
References(controls, field) ==
  LET refs == Flatten([c \in 1..Len(controls) |->
                 [n \in 1..Len(controls[c][field]) |->
                    [controlId |-> controls[c].controlId,
                     name |-> controls[c][field][n],
                     family |-> controls[c].controlFamily]]])
  IN  [n \in 1..Len(refs) |->
         [controlId |-> refs[n].controlId, name |-> refs[n].name,
          family |-> refs[n].family, at |-> n]]

extract_all_policies(bs) == References(AllControls(bs), "policies")

extract_all_procedures(bs) == References(AllControls(bs), "procedures")

\* similar names only
PolicyJoinsBySimilarity(p, q) == similar(p.name, q.name) > 800

\* line 199: if similarity > 0.8 or standardized_1 == standardized_2
PolicyJoins(p, q) ==
  \/ similar(p.name, q.name) > 800
  \/ standardize_policy_name(p.name, p.family) = standardize_policy_name(q.name, q.family)

\* line 277: if similarity > 0.85
ProcedureJoins(p, q) == similar(p.name, q.name) > 850

Joins(kind, p, q) == IF kind = "policy" THEN PolicyJoins(p, q) ELSE ProcedureJoins(p, q)

\* a reference may be taken by a second group
ClaimableAgain(used, ii, jj) == ii # jj

\* lines 188 and 271: if j in used_indices or i == j: continue
Claimable(used, ii, jj) == jj \notin used /\ ii # jj

\* the elements of a set of numbers in increasing order
RECURSIVE Ascending(_)
Ascending(S) == IF S = {} THEN <<>> ELSE <<Least(S)>> \o Ascending(S \ {Least(S)})

\* a sequence without the later occurrences of its elements
RECURSIVE Distinct(_)
Distinct(seq) ==
  IF seq = <<>> THEN <<>>
  ELSE LET front == Distinct(SubSeq(seq, 1, Len(seq) - 1))
           last == seq[Len(seq)]
       IN  IF \E n \in 1..Len(front) : front[n] = last THEN front
           ELSE Append(front, last)

\* lines 186-204: the references the inner loop adds to the group of refs[ii]
Joined(refs, ii, used, kind) ==
  {jj \in 1..Len(refs) : Claimable(used, ii, jj) /\ Joins(kind, refs[ii], refs[jj])}

\* lines 178-204: the group that starts at refs[ii]
GroupOf(refs, ii, joined) ==
  LET at == <<ii>> \o Ascending(joined)
      members == [n \in 1..Len(at) |-> refs[at[n]]]
  IN  [members |-> members,
       controls |-> [n \in 1..Len(at) |-> members[n].controlId],
       originalNames |-> Distinct([n \in 1..Len(at) |-> members[n].name])]

\* lines 174-206: the outer loop from index ii on
RECURSIVE GroupsFrom(_, _, _, _)
GroupsFrom(refs, ii, used, kind) ==
  IF ii > Len(refs) THEN <<>>
  ELSE IF ii \in used THEN GroupsFrom(refs, ii + 1, used, kind)
  ELSE LET joined == Joined(refs, ii, used \cup {ii}, kind)
       IN  <<GroupOf(refs, ii, joined)>>
             \o GroupsFrom(refs, ii + 1, used \cup {ii} \cup joined, kind)

\* lines 169-208
group_similar_policies(policies) ==
  LET gs == GroupsFrom(policies, 1, {}, "policy")
  IN  [g \in 1..Len(gs) |-> [policies |-> gs[g].members, controls |-> gs[g].controls,
                             originalNames |-> gs[g].originalNames]]

\* lines 253-286
group_similar_procedures(procedures) ==
  LET gs == GroupsFrom(procedures, 1, {}, "procedure")
  IN  [g \in 1..Len(gs) |-> [procedures |-> gs[g].members, controls |-> gs[g].controls,
                             originalNames |-> gs[g].originalNames]]

\* sorted(list(set(xs))) for the strings listed in order
SortedSet(xs, order) ==
  SelectSeq(order, LAMBDA x : \E n \in 1..Len(xs) : xs[n] = x)

\* the decimal digits of a number
RECURSIVE Digits(_)
Digits(n) == IF n < 10 THEN <<n>> ELSE Append(Digits(n \div 10), n % 10)

\* f'{idx:03d}'
Pad3(idx) ==
  IF idx < 10 THEN <<0, 0>> \o Digits(idx)
  ELSE IF idx < 100 THEN <<0>> \o Digits(idx) ELSE Digits(idx)

\* f'POL-{idx:03d}' and f'PROC-{idx:03d}'
Identifier(prefix, idx) == <<prefix>> \o Pad3(idx)

\* list.sort(key=lambda x: x['controlCount'], reverse=True): x goes after the
\* entries whose count is not smaller
RECURSIVE SortByControlCount(_)
SortByControlCount(list) ==
  IF list = <<>> THEN <<>>
  ELSE LET front == SortByControlCount(SubSeq(list, 1, Len(list) - 1))
           x == list[Len(list)]
           k == Cardinality({n \in 1..Len(front) : front[n].controlCount >= x.controlCount})
       IN  SubSeq(front, 1, k) \o <<x>> \o SubSeq(front, k + 1, Len(front))

\* the identifiers given before the sort are kept
KeepIds(list, field, prefix) == list

\* lines 248-249 and 310-311: ids are reassigned after sorting
ReassignIds(list, field, prefix) ==
  [n \in 1..Len(list) |-> [list[n] EXCEPT ![field] = Identifier(prefix, n)]]

\* lines 214-242: the entry of one group
MasterPolicy(group, idx) ==
  LET first_policy == group.policies[1]
      families == {group.policies[n].family : n \in 1..Len(group.policies)}
      category == IF Len(group.controls) > 1
                    THEN IF Cardinality(families) = 1 THEN "family-level"
                         ELSE "cross-cutting"
                    ELSE "control-specific"
      unique_controls == SortedSet(group.controls, ControlOrder)
  IN  [id |-> Identifier("POL-", idx),
       standardizedName |-> standardize_policy_name(first_policy.name, first_policy.family),
       category |-> category,
       family |-> IF category = "family-level" THEN first_policy.family ELSE "Multiple",
       sharedAcrossControls |-> unique_controls,
       controlCount |-> Len(unique_controls),
       originalNamesFromResearch |-> SortedSet(group.originalNames, NameOrder)]

\* lines 210-251; the field policyId is named id
create_master_policy_list(groups) ==
  ReassignIds(SortByControlCount([g \in 1..Len(groups) |-> MasterPolicy(groups[g], g)]),
              "id", "POL-")

\* lines 292-305: the entry of one group
MasterProcedure(group, idx) ==
  LET first_procedure == group.procedures[1]
      unique_controls == SortedSet(group.controls, ControlOrder)
  IN  [id |-> Identifier("PROC-", idx),
       standardizedName |-> first_procedure.name,
       sharedAcrossControls |-> unique_controls,
       controlCount |-> Len(unique_controls),
       originalNamesFromResearch |-> SortedSet(group.originalNames, NameOrder)]

\* lines 288-313; the field procedureId is named id
create_master_procedure_list(groups) ==
  ReassignIds(SortByControlCount([g \in 1..Len(groups) |-> MasterProcedure(groups[g], g)]),
              "id", "PROC-")

\* lines 341-345 and 365-369: the first master entry that lists the name
FirstListing(masters, name) ==
  LET M == {m \in 1..Len(masters) :
              \E n \in 1..Len(masters[m].originalNamesFromResearch) :
                 masters[m].originalNamesFromResearch[n] = name}
  IN  IF M = {} THEN 0 ELSE Least(M)

\* the master entries of the names, without the names no entry lists
Listed(masters, names) ==
  SelectSeq([n \in 1..Len(names) |-> FirstListing(masters, names[n])],
            LAMBDA m : m # 0)

\* for c in shared if c != control_id
Without(xs, x) == SelectSeq(xs, LAMBDA c : c # x)

\* lines 336-357: the consolidated policies of a control
ConsolidatedPolicies(control, masters) ==
  LET ms == Listed(masters, control.policies)
  IN  [n \in 1..Len(ms) |->
         [id |-> masters[ms[n]].id,
          standardizedName |-> masters[ms[n]].standardizedName,
          shared |-> masters[ms[n]].controlCount > 1,
          sharedWith |-> Without(masters[ms[n]].sharedAcrossControls, control.controlId)]]

\* lines 360-381: the consolidated procedures of a control
ConsolidatedProcedures(control, masters) ==
  LET ms == Listed(masters, control.procedures)
  IN  [n \in 1..Len(ms) |->
         [id |-> masters[ms[n]].id,
          standardizedName |-> masters[ms[n]].standardizedName,
          shared |-> masters[ms[n]].controlCount > 1,
          sharedWith |-> IF masters[ms[n]].controlCount > 1
                           THEN Without(masters[ms[n]].sharedAcrossControls,
                                        control.controlId)
                           ELSE <<>>]]

\* all_controls.sort(key=lambda x: x['controlId']): x goes after the entries
\* whose id is not greater
RECURSIVE SortByControlId(_)
SortByControlId(list) ==
  IF list = <<>> THEN <<>>
  ELSE LET front == SortByControlId(SubSeq(list, 1, Len(list) - 1))
           x == list[Len(list)]
           rank(c) == CHOOSE r \in 1..Len(ControlOrder) : ControlOrder[r] = c
           k == Cardinality({n \in 1..Len(front) :
                               rank(front[n].controlId) <= rank(x.controlId)})
       IN  SubSeq(front, 1, k) \o <<x>> \o SubSeq(front, k + 1, Len(front))

\* lines 315-400
consolidate_controls(bs, policies, procedures) ==
  LET controls == AllControls(bs)
  IN  SortByControlId(
        [c \in 1..Len(controls) |->
           [controlId |-> controls[c].controlId,
            controlFamily |-> controls[c].controlFamily,
            evidenceRequirements |->
              [policies |-> ConsolidatedPolicies(controls[c], policies),
               procedures |-> ConsolidatedProcedures(controls[c], procedures)]]])

\* the controls of the batch files
ControlChoices ==
  { [controlId |-> "AC-1", controlFamily |-> "AC",
     policies |-> <<"Access Control Policy">>,
     procedures |-> <<"Account review procedure">>],
    [controlId |-> "AC-2", controlFamily |-> "AC",
     policies |-> <<"Access rules policy">>,
     procedures |-> <<"Account review procedures">>],
    [controlId |-> "AU-1", controlFamily |-> "AU",
     policies |-> <<"Access rules policy">>,
     procedures |-> <<"Account removal procedure">>],
    [controlId |-> "AU-1", controlFamily |-> "AU",
     policies |-> <<"Audit Policy", "Audit and Accountability Policy">>,
     procedures |-> <<>>],
    [controlId |-> "AC-2", controlFamily |-> "AC",
     policies |-> <<"Access Control Policies">>,
     procedures |-> <<"Account review procedure", "Backup procedure">>],
    [controlId |-> "AC-1", controlFamily |-> "AC",
     policies |-> <<>>,
     procedures |-> <<"Account review procedures">>] }

\* one batch file, or the first control in a batch file of its own
BatchFiles ==
  LET lists == SeqsUpTo(ControlChoices, MaxControls)
  IN  { << [controls |-> cs] >> : cs \in lists }
      \cup { << [controls |-> SubSeq(cs, 1, 1)],
                [controls |-> SubSeq(cs, 2, Len(cs))] >> : cs \in lists \ {<<>>} }

\* line 454: the batch files are loaded
InitConsolidation ==
  /\ batch = <<>> /\ parked = NoFrame
  /\ d = 1
  /\ all_sections = <<>> /\ sections_list = <<>>
  /\ printed = <<>> /\ returned = <<>>
  /\ lines = <<>> /\ section_id = "" /\ section_name = "" /\ risk_level = ""
  /\ pc = "step 2"
  /\ questions = <<>> /\ starts = <<>>
  /\ i = 0 /\ j = 0
  /\ question_id = None /\ selected_option = None
  /\ answered_by = None /\ answered_date = None
  /\ likelihood = NoInt /\ overall_impact = NoInt
  /\ question_text = <<>> /\ help_text = None /\ options = <<>>
  /\ comments = None
  /\ collecting_question = FALSE /\ collecting_options = FALSE
  /\ collecting_comments = FALSE
  /\ options_at = <<>>
  /\ batches \in BatchFiles
  /\ all_policies = <<>> /\ policy_groups = <<>> /\ master_policies = <<>>
  /\ all_procedures = <<>> /\ procedure_groups = <<>> /\ master_procedures = <<>>
  /\ consolidated_controls = <<>>

scanVars == <<batch, d, all_sections, sections_list, printed, returned, parked,
              docVars, questions, i, j, headVars, bodyVars, histVars>>

\* line 459
MainExtractPolicies ==
  /\ pc = "step 2"
  /\ all_policies' = extract_all_policies(batches)
  /\ pc' = "step 3"
  /\ UNCHANGED <<scanVars, batches, policy_groups, master_policies, all_procedures,
                 procedure_groups, master_procedures, consolidated_controls>>

\* line 464
MainGroupPolicies ==
  /\ pc = "step 3"
  /\ policy_groups' = group_similar_policies(all_policies)
  /\ pc' = "step 4"
  /\ UNCHANGED <<scanVars, batches, all_policies, master_policies, all_procedures,
                 procedure_groups, master_procedures, consolidated_controls>>

\* line 469
MainMasterPolicies ==
  /\ pc = "step 4"
  /\ master_policies' = create_master_policy_list(policy_groups)
  /\ pc' = "step 5"
  /\ UNCHANGED <<scanVars, batches, all_policies, policy_groups, all_procedures,
                 procedure_groups, master_procedures, consolidated_controls>>

\* line 474
MainExtractProcedures ==
  /\ pc = "step 5"
  /\ all_procedures' = extract_all_procedures(batches)
  /\ pc' = "step 6"
  /\ UNCHANGED <<scanVars, batches, all_policies, policy_groups, master_policies,
                 procedure_groups, master_procedures, consolidated_controls>>

\* line 479
MainGroupProcedures ==
  /\ pc = "step 6"
  /\ procedure_groups' = group_similar_procedures(all_procedures)
  /\ pc' = "step 7"
  /\ UNCHANGED <<scanVars, batches, all_policies, policy_groups, master_policies,
                 all_procedures, master_procedures, consolidated_controls>>

\* line 484
MainMasterProcedures ==
  /\ pc = "step 7"
  /\ master_procedures' = create_master_procedure_list(procedure_groups)
  /\ pc' = "step 8"
  /\ UNCHANGED <<scanVars, batches, all_policies, policy_groups, master_policies,
                 all_procedures, procedure_groups, consolidated_controls>>

\* line 489
MainConsolidate ==
  /\ pc = "step 8"
  /\ consolidated_controls' = consolidate_controls(batches, master_policies, master_procedures)
  /\ pc' = "step 9"
  /\ UNCHANGED <<scanVars, batches, all_policies, policy_groups, master_policies,
                 all_procedures, procedure_groups, master_procedures>>

NextConsolidation ==
  \/ MainExtractPolicies
  \/ MainGroupPolicies
  \/ MainMasterPolicies
  \/ MainExtractProcedures
  \/ MainGroupProcedures
  \/ MainMasterProcedures
  \/ MainConsolidate

SpecConsolidation == InitConsolidation /\ [][NextConsolidation]_vars

TypeOK ==
  /\ pc \in {"main", "outer", "inner", "done"}
  /\ d \in 1..(Len(batch) + 1)
  /\ i \in 0..Len(lines) /\ j \in 0..Len(lines)
  /\ Len(starts) = Len(questions)

\* ------------------------------------------------------------ properties
\* the records emitted so far for the document being scanned, those merged
\* into all_sections and those of the sorted output
RECURSIVE QuestionsOf(_)
QuestionsOf(secs) ==
  IF secs = <<>> THEN {}
  ELSE {secs[1].questions[n] : n \in 1..Len(secs[1].questions)} \cup QuestionsOf(Tail(secs))

EmittedRecords ==
  {questions[n] : n \in 1..Len(questions)}
    \cup QuestionsOf(all_sections) \cup QuestionsOf(sections_list)

\* C1: the scan of the record opened at line i never moves past a line
\* j > i + 2 that starts a question: while the record is open no such line
\* lies strictly between i + 2 and the inner cursor j; when the inner cursor
\* stands on such a line the next step closes the record with the outer cursor
\* set to exactly that line; and a line that starts a question at the outer
\* cursor opens a record for that very line.
C1_ScanStopsAtNextQuestion ==
  /\ [](pc = "inner" =>
          \A m \in (i + BoundarySlack + 1)..(j - 1) :
             ~IsQuestionStart(Line(m), section_id))
  /\ [][(pc = "inner" /\ j < Len(lines) /\ j > i + 2
           /\ IsQuestionStart(Line(j), section_id))
          => (pc' = "outer" /\ i' = j)]_vars
  /\ [][(pc = "outer" /\ i < Len(lines) /\ IsQuestionStart(Line(i), section_id))
          => /\ question_id' = QuestionId(section_id, QNum(Line(i), section_id))
             /\ \/ pc' = "inner" /\ i' = i /\ j' = i + 1
                \/ pc' = "outer" /\ i' = i + 1]_vars

\* C1 witness: a record of the multi-line format was closed, unfinished (no
\* option collected), at a question line more than 2 lines past its start,
\* and the record of that line is now open.
C1_Witness ==
  /\ pc = "inner"
  /\ \E n \in 1..Len(starts) :
       /\ starts[n].format = "multi"
       /\ starts[n].end = i
       /\ starts[n].end > starts[n].start + 2
       /\ questions[n].options = <<>>

\* the placeholder of the fallback policy
PlaceholderText == <<"question text not found">>

\* C2: every line that opens a record yields an emitted record; when the
\* collected question text is empty the record is emitted with the
\* placeholder text.
C2_EveryOpenedRecordIsEmitted ==
  [][(\/ pc = "inner" /\ pc' = "outer"
      \/ pc = "outer" /\ pc' = "outer" /\ i < Len(lines)
           /\ IsQuestionStart(Line(i), section_id))
       => /\ Len(questions') = Len(questions) + 1
          /\ questions'[Len(questions')].questionId = question_id'
          /\ questions'[Len(questions')].questionText =
               IF question_text' = <<>> THEN PlaceholderText ELSE question_text']_vars

\* C3: every emitted record has a non-empty questionId and a non-empty
\* questionText.
C3_RecordsHaveIdAndText ==
  \A q \in EmittedRecords :
     /\ Len(q.questionId) = 3 /\ q.questionId[1] # "" /\ q.questionId[3] # ""
     /\ q.questionText # None
     /\ CollapseSpaces(q.questionText) # <<>>

\* C3 witness: a document was scanned in which one opened record was emitted
\* and another, opened in the multi-line format, was closed with no text.
C3_Witness ==
  /\ pc = "outer" /\ i = Len(lines)
  /\ Len(questions) >= 1
  /\ question_text = <<>> /\ question_id # None
  /\ questions[Len(questions)].questionId # question_id

\* C4: the end-to-end scenario yields exactly one record, with the id, the
\* text, the three options, the respondent and the date of the scenario.
C4_EndToEndScenario ==
  (pc = "done" /\ Len(batch) = 1 /\ batch[1].lines = ScenarioDoc /\ batch[1].sid = "A")
    => /\ Len(sections_list) = 1
       /\ Len(sections_list[1].questions) = 1
       /\ LET q == sections_list[1].questions[1]
          IN  /\ q.questionId = <<"A", ".", "1">>
              /\ q.questionText = <<"Does", "the organization have", "policy?">>
              /\ q.options = SubSeq(ScenarioDoc, 3, 5)
              /\ q.givenAnswer.answeredBy = <<"Jane", "Doe">>
              /\ q.givenAnswer.answeredDate = <<"07/12/2024">>

\* a line "{S}.{Q} some prompt ending?": the id, then a prompt that ends
\* with '?'
IsPromptLine(line, sid) ==
  /\ Len(line) >= 2
  /\ \E r \in IdTokens : r.tok = line[1] /\ r.sec = sid /\ r.whole
  /\ "?" \in Literals(line[Len(line)])
  /\ \A p \in 2..Len(line) : ~IdTokenFor(line[p], sid)

\* C5: a line "{S}.{Q} prompt?" at which a record is opened, followed
\* immediately by a line that starts a question, produces one record whose
\* questionId is "{S}.{Q}" and whose questionText is the prompt of that line.
C5_PromptBeforeNextQuestion ==
  [][(/\ pc = "inner" /\ pc' = "outer"
      /\ IsPromptLine(Line(i), section_id)
      /\ i + 1 < Len(lines)
      /\ IsQuestionStart(Line(i + 1), section_id))
       => /\ Len(questions') = Len(questions) + 1
          /\ questions'[Len(questions')].questionId =
               QuestionId(section_id, QNum(Line(i), section_id))
          /\ questions'[Len(questions')].questionText = Tail(Line(i))]_vars

\* a document main cannot process: its file is missing or reading it raises
Fails(doc) == ~doc.exists \/ ~doc.readable

\* the sections of the documents that returned one, merged in processing order
RECURSIVE MergeAll(_)
MergeAll(rets) ==
  IF rets = <<>> THEN <<>>
  ELSE LET before == MergeAll(SubSeq(rets, 1, Len(rets) - 1))
           last == rets[Len(rets)]
       IN  IF last = <<>> THEN before ELSE MergeSection(before, last[1])

\* C6: a document that fails contributes nothing and does not stop the batch:
\* exactly the failing documents return no section; a document contributes
\* the same section wherever it stands in the batch, before or after a
\* failing one; when main ends every document has been visited and the
\* merged sections are those of the documents that did not fail.
C6_FailureIsolated ==
  /\ \A p \in 1..Len(returned) : Fails(batch[p]) <=> returned[p] = <<>>
  /\ \A p, q \in 1..Len(returned) : batch[p] = batch[q] => returned[p] = returned[q]
  /\ pc = "done" =>
       /\ Len(returned) = Len(batch)
       /\ all_sections = MergeAll(returned)
       /\ Len(sections_list) = Len(all_sections)

\* C6 witness: main has ended on a batch in which a document was scanned,
\* then one failed with an exception, then the first document was scanned
\* again.
C6_Witness ==
  /\ pc = "done"
  /\ \E p, q, r \in 1..Len(batch) :
       /\ p < q /\ q < r
       /\ ~Fails(batch[p]) /\ batch[r] = batch[p]
       /\ batch[q].exists /\ ~batch[q].readable
       /\ returned[r] # <<>> /\ returned[r][1].questions # <<>>

\* C7: in a batch of four well-formed documents and one whose title matches
\* no pattern, the latter is skipped (it returns no section and a failure is
\* reported for it) and the output has the four sections of the others.
C7_UnparseableTitleSkipped ==
  \A bad \in 1..Len(batch) :
    (/\ pc = "done" /\ Len(batch) = 5
     /\ ~TitleMatches(batch[bad].title)
     /\ \A n \in 1..5 : ~Fails(batch[n]) /\ (n # bad => TitleMatches(batch[n].title)))
      => /\ returned[bad] = <<>>
         /\ Len(sections_list) = 4
         /\ \A n \in 1..Len(sections_list) : sections_list[n].sectionName # "Unknown"
         /\ \E n \in 1..Len(printed) :
              printed[n][2] = bad /\ printed[n][1] \notin {"Extracted", "Added"}

\* a line holding "Likelihood: N, Overall impact: M"
IsScoringLine(line) == \E p \in 1..Len(line) : ScoreOf(line[p]) # <<>>

\* the scoring C8 expects for a record opened at line n of the document
ExpectedScoring(n) ==
  LET W == {m \in n..(Min(n + 50, Len(lines)) - 1) : IsScoringLine(Line(m))}
  IN  IF W = {} THEN [likelihood |-> NoInt, overallImpact |-> NoInt]
      ELSE LET first == CHOOSE m \in W : \A m2 \in W : m <= m2
               p == CHOOSE p \in 1..Len(Line(first)) :
                      /\ ScoreOf(Line(first)[p]) # <<>>
                      /\ \A p2 \in 1..(p - 1) : ScoreOf(Line(first)[p2]) = <<>>
           IN  [likelihood |-> ScoreOf(Line(first)[p])[1],
                overallImpact |-> ScoreOf(Line(first)[p])[2]]

\* C8: the scoring of a record opened at line i is that of the first line of
\* [i, min(i + 50, len(lines))) that holds the scoring marker, and null when
\* no line of the window holds it.
C8_ScoringFromFirstMarkerInWindow ==
  /\ pc = "inner" =>
       [likelihood |-> likelihood, overallImpact |-> overall_impact] = ExpectedScoring(i)
  /\ \A n \in 1..Len(questions) : questions[n].scoring = ExpectedScoring(starts[n].start)

\* C8 witness: an emitted record has null scoring although a marker line
\* follows it in the document, beyond the window; and another emitted record
\* took its scoring from a marker line after its start line.
C8_Witness ==
  /\ \E n \in 1..Len(questions) :
       /\ questions[n].scoring.likelihood = NoInt
       /\ \E m \in (starts[n].start + 50)..(Len(lines) - 1) : IsScoringLine(Line(m))
  /\ \E n \in 1..Len(questions) :
       /\ questions[n].scoring.likelihood # NoInt
       /\ ~IsScoringLine(Line(starts[n].start))

YesProgram == <<"Yes,", "we", "have", "a", "program">>

CountIn(opts, x) == Cardinality({n \in 1..Len(opts) : opts[n] = x})

\* C9: when the options of a record are collected from the option line
\* "Yes, we have a program" followed by the same line again, right after the
\* options marker, the options hold that string exactly once.
C9_DuplicateOptionKeptOnce ==
  \A n \in 1..Len(questions) :
    (/\ starts[n].format = "multi"
     /\ \E m \in (starts[n].start + 2)..(starts[n].end - 2) :
          /\ Line(m - 1) = <<"Please select", "one of the", "following options">>
          /\ Line(m) = YesProgram
          /\ Line(m + 1) = YesProgram)
      => CountIn(questions[n].options, YesProgram) = 1

\* C10: the options of every emitted record are pairwise distinct and stand
\* in the order in which they are first met in the document.
C10_OptionsDistinctInEncounterOrder ==
  \A n \in 1..Len(questions) :
    LET opts == questions[n].options
        at == starts[n].optionsAt
    IN  /\ \A a, b \in 1..Len(opts) : a # b => opts[a] # opts[b]
        /\ \A a, b \in 1..Len(at) : a < b => at[a] < at[b]

\* C11: in the multi-line format a line holding '?' that is added to the
\* question text is the last one: the step that adds it ends the collection of
\* question text, and from then on no step of the scan of the record changes
\* the text or resumes the collection; closing the record only normalises the
\* text collected.
C11_QuestionMarkLineIsLast ==
  /\ [][(pc = "inner" /\ pc' = "inner" /\ question_text' # question_text
           /\ Contains(Line(j), "?"))
          => /\ ~collecting_question'
             /\ (~Contains(Line(j), "Help Text") /\ ~Contains(Line(j), "Please select"))
                  => question_text' = question_text \o Line(j)]_vars
  /\ [][(pc = "inner" /\ pc' = "inner" /\ ~collecting_question)
          => (~collecting_question' /\ question_text' = question_text)]_vars
  /\ [][(pc = "inner" /\ pc' = "outer")
          => question_text' = CollapseSpaces(Strip(question_text))]_vars

\* C11 witness: the question text of the open record ends with a line holding
\* '?', and a line of prose that follows it in the record has been read
\* without being added.
C11_Witness ==
  /\ pc = "inner" /\ ~collecting_question
  /\ \E m \in (i + 1)..(j - 2) :
       /\ Contains(Line(m), "?")
       /\ Line(m + 1) = <<"prose">>
       /\ question_text # <<>>
       /\ SubSeq(question_text, Len(question_text) - Len(Line(m)) + 1,
                 Len(question_text)) = Line(m)

\* an entry of opts begins with the tokens of text
BeginsAnOption(opts, text) ==
  \E n \in 1..Len(opts) :
     Len(opts[n]) >= Len(text) /\ SubSeq(opts[n], 1, Len(text)) = text

\* a text that begins an option
IsOptionLike(text) ==
  StartsWith(text, "Yes,") \/ StartsWith(text, "No,") \/ text = <<"Not applicable">>

\* C12: while question text is collected, a line holding "Help Text" or
\* "Please select" ends the collection in that very step, with or without a
\* '?'; what stands before the marker is added to the question text; what
\* stands after "Help Text" becomes the help text, and what stands after
\* "Please select" is the first content of the options part, so that an
\* option standing there is collected.
C12_MarkerLineSplits ==
  [][(pc = "inner" /\ pc' = "inner" /\ collecting_question
        /\ (Contains(Line(j), "Help Text") \/ Contains(Line(j), "Please select")))
       => /\ ~collecting_question'
          /\ IF Contains(Line(j), "Help Text")
               THEN LET post == Strip(SplitRest(Line(j), "Help Text"))
                    IN  /\ question_text' =
                             question_text \o Strip(SplitHead(Line(j), "Help Text"))
                        /\ (post # <<>> /\ ~StartsWith(post, "Please select"))
                             => help_text' = Strip(SplitHead(post, "Please select"))
               ELSE LET post == Strip(SplitRest(Line(j), "Please select"))
                    IN  /\ question_text' =
                             question_text \o Strip(SplitHead(Line(j), "Please select"))
                        /\ collecting_options'
                        /\ IsOptionLike(post) => BeginsAnOption(options', post)]_vars

\* the tokens of text stand, in a row, inside an entry of opts
OccursInOptions(opts, text) ==
  \E n \in 1..Len(opts) : \E p \in 1..Len(opts[n]) :
     /\ p + Len(text) - 1 <= Len(opts[n])
     /\ SubSeq(opts[n], p, p + Len(text) - 1) = text

\* a line that ends the options part
IsOptionsTerminator(line) ==
  Contains(line, "Show possible answers") \/ line = <<"Comments">>

\* C13: in every emitted record of the multi-line format, each line that
\* begins with "Yes," or "No," or equals "Not applicable" and that was read
\* after a line of the record holding "Please select", with no terminator
\* line in between, is part of the options of the record; the line holding
\* the marker may hold "Help Text" as well.
C13_OptionsCollectedAfterMarker ==
  \A n \in 1..Len(questions) :
    starts[n].format = "multi" =>
      \A m \in (starts[n].start + 1)..(starts[n].end - 1) :
        Contains(Line(m), "Please select") =>
          \A m2 \in (m + 1)..(starts[n].end - 1) :
            (/\ IsOptionLike(Line(m2))
             /\ \A t \in m..m2 : ~IsOptionsTerminator(Line(t)))
              => OccursInOptions(questions[n].options, Line(m2))

\* no line of the open record read so far, up to line m, holds the options
\* marker
NoMarkerUpTo(from, m) == \A t \in (from + 1)..m : ~Contains(Line(t), "Please select")

\* C14: in the multi-line format, as long as no line of the record holds the
\* options marker, no option is collected and the options sub-state is not
\* entered; a line that begins with "Yes," or "No," or equals "Not
\* applicable", read in that part of the record, leaves the options empty,
\* and while question text is collected it is added, whole, to the question
\* text (a line that holds "Help Text" is split at it instead); every option
\* of an emitted record starts after the first marker line of the record.
C14_NoOptionBeforeMarker ==
  /\ [](pc = "inner" /\ NoMarkerUpTo(i, j - 1) => options = <<>> /\ ~collecting_options)
  /\ [][(/\ pc = "inner" /\ pc' = "inner"
         /\ IsOptionLike(Line(j)) /\ NoMarkerUpTo(i, j))
          => /\ options' = <<>>
             /\ (collecting_question /\ ~Contains(Line(j), "Help Text"))
                  => question_text' = question_text \o Line(j)]_vars
  /\ [](\A n \in 1..Len(questions) :
          starts[n].format = "multi" =>
            \A a \in 1..Len(starts[n].optionsAt) :
              \E m \in (starts[n].start + 1)..(starts[n].end - 1) :
                 Contains(Line(m), "Please select") /\ At(m, 1) < starts[n].optionsAt[a])

\* C14 witness: the first line of the open record began with "Yes," or "No,"
\* or was "Not applicable" and was added to the question text; the marker came
\* later, and an option has been collected after it.
C14_Witness ==
  /\ pc = "inner" /\ j > i + 3 /\ options # <<>>
  /\ IsOptionLike(Line(i + 1)) /\ ~Contains(Line(i + 1), "Please select")
  /\ Len(question_text) >= Len(Line(i + 1))
  /\ SubSeq(question_text, 1, Len(Line(i + 1))) = Line(i + 1)
  /\ \A a \in 1..Len(options_at) : options_at[a] > At(i + 2, 1)

\* the line that stops the continuation of an option of the given polarity
StopsContinuation(line, polarity, sid) ==
  \/ IsQuestionStart(line, sid)
  \/ StartsWith(line, IF polarity = "Yes," THEN "No," ELSE "Yes,")
  \/ StartsWith(line, "Not applicable")
  \/ StartsWith(line, "Show possible") \/ StartsWith(line, "Comments")

\* the first line after line m that stops the continuation, the length of
\* the document if there is none
ContinuationStop(m, polarity) ==
  LET S == {k \in (m + 1)..(Len(lines) - 1) : StopsContinuation(Line(k), polarity, section_id)}
  IN  IF S = {} THEN Len(lines) ELSE Least(S)

\* C15: when the options part reads a line that begins with "Yes," (resp.
\* "No,"), the option is that line followed by every line up to the first
\* later line that starts a question, begins with "No," (resp. "Yes,") or
\* "Not applicable", or begins a terminator ("Show possible", "Comments"), or
\* up to the end of the document, the lines separated by single spaces; it is
\* appended to the options unless already there, and the scan goes on at the
\* line that stopped the continuation.
C15_OptionContinuation ==
  [][(/\ pc = "inner" /\ pc' = "inner"
      /\ ~collecting_question /\ InOptionsPart(Line(j))
      /\ (StartsWith(Line(j), "Yes,") \/ StartsWith(Line(j), "No,")))
       => LET polarity == IF StartsWith(Line(j), "Yes,") THEN "Yes," ELSE "No,"
              stop == ContinuationStop(j, polarity)
              opt == JoinLines(lines, j, stop)
          IN  /\ j' = stop
              /\ options' = IF InOptions(options, opt) THEN options
                                                       ELSE Append(options, opt)]_vars

\* C15 witness: the last option of the open record took in more than one
\* line and stopped at a line that starts a question, which the scan reads
\* next.
C15_Witness ==
  /\ pc = "inner" /\ options # <<>> /\ j < Len(lines)
  /\ IsQuestionStart(Line(j), section_id)
  /\ \E m \in (i + 1)..(j - 2) :
       /\ options_at[Len(options_at)] = At(m, 1)
       /\ options[Len(options)] = JoinLines(lines, m, j)

\* the reasons of the list: a line that starts a question more than 2 lines
\* past the start of the record, the end of the document, a terminating
\* marker line
ListedCloseReason ==
  \/ j >= Len(lines)
  \/ /\ j < Len(lines)
     /\ \/ IsQuestionStart(Line(j), section_id) /\ j > i + 2
        \/ StartsWith(Line(j), "Data Location:")
        \/ StartsWith(Line(j), "Create a new task")

\* C16 as stated: the scan of an open record ends only when the cursor stands
\* on a line that starts a question more than 2 lines past the start of the
\* record, at the end of the document, or on a terminating marker line.
C16_ClosesOnlyForListedReasons ==
  [][(pc = "inner" /\ pc' = "outer") => ListedCloseReason]_vars

\* C16 amended: the scan of an open record ends only for one of the three
\* listed reasons or because the cursor is 40 lines past the start of the
\* record; the outer scan resumes at the line where it ended.
C16_ClosesOnlyForListedReasonsOrWindow ==
  [][(pc = "inner" /\ pc' = "outer")
       => /\ ListedCloseReason \/ j >= i + InnerWindow
          /\ i' = j]_vars

\* C16 witness: a record was closed 40 lines past its start, on a line that
\* neither starts a question nor is a terminating marker, with lines of the
\* document remaining.
C16_Witness ==
  /\ pc = "outer"
  /\ \E n \in 1..Len(starts) :
       /\ starts[n].format = "multi"
       /\ starts[n].end = starts[n].start + InnerWindow
       /\ starts[n].end < Len(lines)
       /\ ~IsQuestionStart(Line(starts[n].end), section_id)
       /\ ~StartsWith(Line(starts[n].end), "Data Location:")

\* the questions of the documents of section sid that returned a result, in
\* processing order
RECURSIVE QuestionsInOrder(_, _)
QuestionsInOrder(sid, p) ==
  IF p = 0 THEN <<>>
  ELSE QuestionsInOrder(sid, p - 1)
         \o (IF returned[p] # <<>> /\ batch[p].sid = sid
               THEN returned[p][1].questions ELSE <<>>)

\* C17: when main ends, the output list has one entry for each section
\* identifier of which a document returned a result, and no other entry; its
\* entries stand in ascending order of sectionId; and the questions of an
\* entry are those of the documents of its section, one document after the
\* other in processing order.
C17_OutputSortedAndMerged ==
  pc = "done" =>
    /\ \A a, b \in 1..Len(sections_list) :
         a < b => Rank(sections_list[a].sectionId) < Rank(sections_list[b].sectionId)
    /\ {sections_list[a].sectionId : a \in 1..Len(sections_list)}
         = {batch[p].sid : p \in {p \in 1..Len(batch) : returned[p] # <<>>}}
    /\ \A a \in 1..Len(sections_list) :
         sections_list[a].questions =
           QuestionsInOrder(sections_list[a].sectionId, Len(batch))

\* C17 witness: main has ended on a batch in which two documents of one
\* section returned different, non-empty lists of questions and a document of
\* a section that sorts before it was processed between them.
C17_Witness ==
  /\ pc = "done"
  /\ \E p, q, r \in 1..Len(batch) :
       /\ p < q /\ q < r
       /\ batch[p].sid = batch[r].sid
       /\ Rank(batch[q].sid) < Rank(batch[p].sid)
       /\ returned[p] # <<>> /\ returned[q] # <<>> /\ returned[r] # <<>>
       /\ returned[p][1].questions # <<>> /\ returned[r][1].questions # <<>>
       /\ returned[p][1].questions # returned[r][1].questions

\* C18: two scans of the same lines with the same section identifier return
\* the same records, whatever was scanned before or between them and whatever
\* the titles of the two documents.
C18_ScanDeterministic ==
  \A p, q \in 1..Len(returned) :
    (/\ returned[p] # <<>> /\ returned[q] # <<>>
     /\ batch[p].lines = batch[q].lines /\ batch[p].sid = batch[q].sid)
      => returned[p][1].questions = returned[q][1].questions

\* C18 witness: main has ended on a batch in which the same lines were
\* scanned twice for the same section, under different titles, with a scan
\* of another document that returned other records between the two.
C18_Witness ==
  /\ pc = "done"
  /\ \E p, q, r \in 1..Len(batch) :
       /\ p < q /\ q < r
       /\ batch[p].lines = batch[r].lines /\ batch[p].sid = batch[r].sid
       /\ batch[p].title # batch[r].title
       /\ returned[p] # <<>> /\ returned[q] # <<>> /\ returned[r] # <<>>
       /\ returned[p][1].questions # <<>> /\ returned[q][1].questions # <<>>
       /\ returned[q][1].questions # returned[p][1].questions

\* C19: when the first two documents of a batch are scanned by two
\* invocations whose steps are interleaved in any order, each returns the
\* section that the scan of the same document alone returns afterwards; and
\* the locals of the suspended invocation change only when it is suspended,
\* taking exactly the values the running one had, or resumed with exactly
\* the values it was suspended with: no step of the running scan writes them.
C19_InterleavedScansIndependent ==
  /\ [](pc = "done" =>
          /\ Len(returned) = 4
          /\ returned[1] = returned[3]
          /\ returned[2] = returned[4])
  /\ [][parked' # parked =>
          \/ parked' = RunningFrame
          \/ parked' = NoFrame /\ RunningFrame' = parked]_vars
  /\ [][(parked.pc # "none" /\ parked' = parked /\ d' = d) =>
          UNCHANGED <<all_sections, returned>>]_vars

\* C19 witness: both invocations are in the middle of a record of their
\* document, each with question text collected, and none has returned.
C19_Witness ==
  /\ returned = <<>>
  /\ pc = "inner" /\ question_text # <<>> /\ j > i + 1
  /\ parked.pc = "inner" /\ parked.question_text # <<>> /\ parked.j > parked.i + 1
  /\ parked.lines # lines

\* "<sid>." and a qualifier occur in the line, and only as the end of a
\* longer token
OnlyAsTail(line, sid) ==
  /\ \E p \in 1..Len(line) :
        \E r \in IdTokens : r.tok = line[p] /\ r.sec = sid /\ ~r.whole
  /\ \A p \in 1..Len(line) :
        \A r \in IdTokens : (r.tok = line[p] /\ r.sec = sid) => ~r.whole

\* C20: a line in which "<section>." and a qualifier occur only as the end of
\* a longer token is no question start: at the outer cursor it is skipped
\* and opens no record, inside a record it does not close the record, and no
\* emitted record starts at such a line.
C20_QuestionStartAnchored ==
  /\ [][(pc = "outer" /\ i < Len(lines) /\ OnlyAsTail(Line(i), section_id))
          => (pc' = "outer" /\ i' = i + 1 /\ UNCHANGED <<questions, question_id>>)]_vars
  /\ [][(/\ pc = "inner" /\ j < Len(lines) /\ j < i + InnerWindow
         /\ OnlyAsTail(Line(j), section_id))
          => pc' = "inner"]_vars
  /\ [](\A n \in 1..Len(starts) : ~OnlyAsTail(Line(starts[n].start), section_id))

\* the qualifiers that are one or more digits, then letters or periods
DigitsFirst(qual) == qual \in {"1", "2", "7", "13.1F"}

\* C21: the questionId of every emitted record is the section identifier of
\* the scan, a period, and a qualifier that begins with a digit.
C21_QualifierBeginsWithDigit ==
  \A n \in 1..Len(questions) :
       /\ questions[n].questionId[1] = section_id
       /\ questions[n].questionId[2] = "."
       /\ DigitsFirst(questions[n].questionId[3])

\* a text with no run of several whitespace characters, at its ends or inside
IsNormalized(text) == \A p \in 1..Len(text) : text[p] # WideSpace

\* C22: the questionText of every emitted record, of the single-line format
\* or of the multi-line format, has no whitespace at its ends and no run of
\* two or more whitespace characters inside.
C22_QuestionTextNormalized ==
  \A n \in 1..Len(questions) : IsNormalized(questions[n].questionText)

\* the explanatory text that follows "Help Text" in a line, up to the
\* options marker
HelpAfter(line) == Strip(SplitHead(SplitRest(line, "Help Text"), "Please select"))

HasHelp(line) == Contains(line, "Help Text") /\ HelpAfter(line) # <<>>

\* the help text C23 expects for the n-th emitted record
ExpectedHelp(n) ==
  LET R == IF starts[n].format = "single" THEN {starts[n].start}
           ELSE (starts[n].start + 1)..(starts[n].end - 1)
      H == {m \in R : HasHelp(Line(m))}
  IN  IF H = {} THEN None ELSE HelpAfter(Line(Least(H)))

\* C23: the helpText of every emitted record is the explanatory text that
\* follows "Help Text" in the first line of the record that holds it, also
\* when the question text had already ended at a '?' line, and null when no
\* line of the record holds "Help Text" followed by text.
C23_HelpTextFoundOrNull ==
  \A n \in 1..Len(questions) : questions[n].helpText = ExpectedHelp(n)

\* the tokens of line stand, in a row, inside text
OccursInText(text, line) ==
  \E p \in 1..Len(text) :
     /\ p + Len(line) - 1 <= Len(text)
     /\ SubSeq(text, p, p + Len(line) - 1) = line

\* a line "Answered by: <name>" and a line "Date: MM/DD/YYYY"
IsAnsweredByLine(line) == StartsWith(line, "Answered by:") /\ AnsweredBy(line) # None

IsDateLine(line) == StartsWith(line, "Date:") /\ AnsweredDate(line) # None

\* C24: when the lines of an emitted record of the multi-line format that
\* follow its options marker hold an "Answered by: <name>" line and a
\* "Date: MM/DD/YYYY" line, in either order, the record has that name and
\* that date, and neither line is part of its question text or of an option.
C24_MetadataOrderIndependent ==
  \A n \in 1..Len(questions) :
    starts[n].format = "multi" =>
      \A m \in (starts[n].start + 1)..(starts[n].end - 1) :
        Contains(Line(m), "Please select") =>
          \A a, b \in (m + 1)..(starts[n].end - 1) :
            (IsAnsweredByLine(Line(a)) /\ IsDateLine(Line(b)))
              => /\ questions[n].givenAnswer.answeredBy = AnsweredBy(Line(a))
                 /\ questions[n].givenAnswer.answeredDate = AnsweredDate(Line(b))
                 /\ ~OccursInText(questions[n].questionText, Line(a))
                 /\ ~OccursInText(questions[n].questionText, Line(b))
                 /\ ~OccursInOptions(questions[n].options, Line(a))
                 /\ ~OccursInOptions(questions[n].options, Line(b))

\* C25: in parse_html_file of parseFordSurvey.py every option of a record
\* comes from a line after an options marker ("Please select ... following
\* options") of that same record: between the line that opened the record and
\* the option line there is a marker line, and collecting_options is false
\* right after a record is opened.
ParseMarkerLine(n) ==
  Contains(Line(n), "Please select") /\ Contains(Line(n), "following options")

C25_OptionsAfterOwnMarker ==
  \A n \in 1..Len(starts) :
    \A a \in 1..Len(starts[n].optionsAt) :
      \E m \in (starts[n].start + 1)..(starts[n].optionsAt[a] - 1) :
        ParseMarkerLine(m)

\* C26: extract_questions_from_section terminates on every finite line
\* sequence: every iteration of the outer loop moves i forward (by 1, or to
\* the inner cursor j with j > i), every iteration of the inner loop moves j
\* forward (also after the option continuation set j = k - 1), and every scan
\* that was begun returns.
C26_CursorsAdvance ==
  /\ (pc = "outer" /\ pc' = "outer") => i' = i + 1
  /\ (pc = "outer" /\ pc' = "inner") => i' = i /\ j' = i + 1
  /\ (pc = "inner" /\ pc' = "inner") => i' = i /\ j' > j
  /\ (pc = "inner" /\ pc' = "outer") => j > i /\ i' = j
  /\ pc \in {"outer", "inner"} => i <= Len(lines) /\ j <= Len(lines)

C26_ScanTerminates ==
  /\ [][C26_CursorsAdvance]_vars
  /\ (pc \in {"outer", "inner"}) ~> (pc = "main")

\* a scan has returned whose last record took a continuation line into its
\* "No," option
C26_Witness ==
  /\ pc = "done"
  /\ InOptions(options, <<"No,", "x", "Help Text", "explain">>)

\* C27: the scoring of a record is never taken from a line at or after the
\* start line of the next record: it is what the lookahead finds on the lines
\* from the record's start line up to the line before the next record's start.
C27_ScoringBelongsToRecord ==
  \A n \in 1..(Len(starts) - 1) :
    <<questions[n].scoring.likelihood, questions[n].scoring.overallImpact>>
      = ScoringFrom(lines, starts[n].start, starts[n + 1].start)

\* C28: a line that opens a record never supplies a field value to the record
\* closed at it: in an iteration of the inner loop neither the lines the
\* iteration takes as question text or as an option (lines j to j' - 1) nor
\* the line after "Comments" it reads the comments from (line j') is a
\* QuestionStart line at which the inner loop then ends.
C28_ClosesAt(n) ==
  /\ n = j' /\ n < Len(lines)
  /\ IsQuestionStart(Line(n), section_id)
  /\ (n > i + BoundarySlack \/ n >= i + InnerWindow)

C28_OpeningLineSuppliesNothing ==
  [][(pc = "inner" /\ pc' = "inner") =>
       LET taken == j..(j' - 1)
           read == IF /\ Line(j) = <<"Comments">> /\ j' < Len(lines)
                      /\ comments' = Line(j')
                     THEN {j'} ELSE {}
       IN  \A n \in taken \cup read : ~C28_ClosesAt(n)]_vars

\* C29: when a record opened at line i takes the multi-line path and neither
\* line i + 1 nor line i + 2 starts with "Data Location:" or "Create a new
\* task", a QuestionStart line at i + 1 or i + 2 opens no record of its own:
\* the inner loop does not end at it, the outer cursor resumes past it, and
\* no emitted record has it as its start line.
EndMarkerAt(n) ==
  /\ n < Len(lines)
  /\ \/ StartsWith(Line(n), "Data Location:")
     \/ StartsWith(Line(n), "Create a new task")

\* the QuestionStart lines right after a record's start line at `start`
SwallowedAfter(start) ==
  IF EndMarkerAt(start + 1) \/ EndMarkerAt(start + 2) THEN {}
  ELSE {m \in {start + 1, start + 2} :
          m < Len(lines) /\ IsQuestionStart(Line(m), section_id)}

C29_CloseStep ==
  (pc = "inner" /\ pc' = "outer") => \A m \in SwallowedAfter(i) : i' > m

C29_EarlyQuestionStartSwallowed ==
  /\ [][C29_CloseStep]_vars
  /\ [](pc \in {"outer", "inner"} =>
         \A n \in 1..Len(starts) :
           starts[n].format = "multi" =>
             \A m \in SwallowedAfter(starts[n].start) :
               /\ starts[n].end > m
               /\ \A f \in 1..Len(starts) : starts[f].start # m)

\* a record was emitted whose question text holds the QuestionStart line
\* that followed its start line
C29_Witness ==
  /\ pc = "outer"
  /\ \E n \in 1..Len(starts) :
       /\ starts[n].format = "multi"
       /\ \E m \in SwallowedAfter(starts[n].start) :
            OccursInText(questions[n].questionText, Line(m))

\* C30: parse_html_file of parseFordSurveyImproved.py never drops a record:
\* every line matching the question pattern that the outer cursor reaches
\* opens a record, every opened record is emitted exactly once when its inner
\* loop ends, with a non-empty questionText that is the collected question
\* lines if there are any, else the line right after the start line, and
\* "Question text not found" only when the start line is the last line.
C30_Step ==
  /\ (pc = "scan" /\ i < Len(lines) /\ ImprovedQuestionMatch(Line(i), section_id))
       => (pc' = "look" /\ Len(starts') = Len(starts) + 1 /\ questions' = questions)
  /\ (pc = "look" /\ pc' = "look") => questions' = questions
  /\ (pc = "look" /\ pc' = "scan") =>
       /\ Len(questions') = Len(questions) + 1
       /\ SubSeq(questions', 1, Len(questions)) = questions
       /\ LET q == questions'[Len(questions')]
          IN  /\ q.questionId = question_id
              /\ q.questionText # <<>>
              /\ q.questionText =
                   IF question_text # <<>> THEN question_text
                   ELSE IF i + 1 < Len(lines) THEN Line(i + 1)
                   ELSE Placeholder

C30_NeverDropsRecord ==
  /\ [][C30_Step]_vars
  /\ [](/\ pc \in {"scan", "returned"} => Len(questions) = Len(starts)
        /\ pc = "look" => Len(questions) + 1 = Len(starts)
        /\ \A n \in 1..Len(questions) :
             /\ questions[n].questionId
                  = ImprovedQuestionId(Line(starts[n].start), section_id)
             /\ questions[n].questionText = Placeholder
                  => starts[n].start = Len(lines) - 1)

\* a record took the line after its start line as its text because no
\* question line was collected, and the record of the last line took the
\* placeholder
C30_Witness ==
  /\ pc = "returned"
  /\ \E n \in 1..Len(questions) :
       /\ starts[n].start + 1 < Len(lines)
       /\ Line(starts[n].start + 1) = <<"Help Text">>
       /\ questions[n].questionText = <<"Help Text">>
  /\ \E n \in 1..Len(questions) : questions[n].questionText = Placeholder

\* C31: selectedOption of a record is the text of the record's start line
\* between the question id and "Answered by:" (or the end of the line); it is
\* null exactly when there is no such text or the text begins the question
\* prompt, that is, its first word is one of the interrogative openers.  An
\* answer text that is not a question is never discarded.
BeginsPrompt(text) == text # <<>> /\ text[1] \in Openers

C31_SelectedOptionFromStartLine ==
  pc \in {"outer", "inner"} =>
    \A n \in 1..Len(starts) :
      LET found == AnswerMatch(Line(starts[n].start), section_id,
                               questions[n].questionId[3])
          text == IF found = None THEN <<>> ELSE Strip(found)
      IN  questions[n].givenAnswer.selectedOption =
            IF text = <<>> \/ BeginsPrompt(text) THEN None ELSE text

\* the positions in the input list of the references of the groups
GroupPositions(members) ==
  [g \in 1..Len(members) |-> [n \in 1..Len(members[g]) |-> members[g][n].at]]

PolicyPositions ==
  GroupPositions([g \in 1..Len(policy_groups) |-> policy_groups[g].policies])

ProcedurePositions ==
  GroupPositions([g \in 1..Len(procedure_groups) |-> procedure_groups[g].procedures])

PoliciesGrouped == pc \in {"step 4", "step 5", "step 6", "step 7", "step 8", "step 9"}

PolicyMastersListed == pc \in {"step 5", "step 6", "step 7", "step 8", "step 9"}

ProceduresGrouped == pc \in {"step 7", "step 8", "step 9"}

ProcedureMastersListed == pc \in {"step 8", "step 9"}

\* C32: the master policy list made by group_similar_policies and then
\* create_master_policy_list holds no two entries with the same
\* standardizedName, whatever the policy references of the input are.
C32_MasterPoliciesDeduplicated ==
  PolicyMastersListed =>
    \A m, n \in 1..Len(master_policies) :
       m # n => master_policies[m].standardizedName # master_policies[n].standardizedName

\* two entries, one of them for a group that standardization alone joined
C32_Witness ==
  /\ PolicyMastersListed
  /\ Len(master_policies) >= 2
  /\ \E g \in 1..Len(policy_groups) : \E n \in 2..Len(policy_groups[g].policies) :
        ~PolicyJoinsBySimilarity(policy_groups[g].policies[1], policy_groups[g].policies[n])

\* the groups hold every reference of the list once, and each group starts at
\* the earliest reference no earlier group holds
Partitions(refs, positions) ==
  /\ \A r \in 1..Len(refs) :
        Cardinality({gn \in UNION {{<<g, n>> : n \in 1..Len(positions[g])} :
                                     g \in 1..Len(positions)} :
                       positions[gn[1]][gn[2]] = r}) = 1
  /\ \A g \in 1..Len(positions) :
        /\ positions[g] # <<>>
        /\ \A n \in 1..Len(positions[g]) : positions[g][n] \in 1..Len(refs)
        /\ positions[g][1] =
             Least((1..Len(refs))
                     \ UNION {{positions[h][n] : n \in 1..Len(positions[h])} :
                                h \in 1..(g - 1)})

\* C33: group_similar_policies and group_similar_procedures partition their
\* input: every reference is in exactly one group, and the first member of a
\* group is the earliest reference that no earlier group has claimed.
C33_GroupsPartitionInput ==
  /\ PoliciesGrouped =>
       /\ Partitions(all_policies, PolicyPositions)
       /\ \A g \in 1..Len(policy_groups) : \A n \in 1..Len(policy_groups[g].policies) :
             policy_groups[g].policies[n] = all_policies[PolicyPositions[g][n]]
  /\ ProceduresGrouped =>
       /\ Partitions(all_procedures, ProcedurePositions)
       /\ \A g \in 1..Len(procedure_groups) : \A n \in 1..Len(procedure_groups[g].procedures) :
             procedure_groups[g].procedures[n] = all_procedures[ProcedurePositions[g][n]]

\* a group took a reference from behind the start of a later group, and a
\* reference that is similar to a member of an earlier group starts its own
C33_Witness ==
  /\ ProceduresGrouped
  /\ \E g, h \in 1..Len(ProcedurePositions) :
        /\ g < h
        /\ \E n \in 1..Len(ProcedurePositions[g]) :
              ProcedurePositions[g][n] > ProcedurePositions[h][1]
  /\ \E g, h \in 1..Len(procedure_groups) :
        /\ g < h
        /\ \E n \in 2..Len(procedure_groups[g].procedures) :
              ProcedureJoins(procedure_groups[h].procedures[1],
                             procedure_groups[g].procedures[n])

\* the master entry with the identifier
MasterWithId(masters, id) ==
  masters[CHOOSE m \in 1..Len(masters) : masters[m].id = id]

\* C34: in consolidate_controls every policy of a control is assigned a master
\* policy whose sharedAcrossControls holds the id of the control; sharedWith is
\* that list without the control, and shared holds only if another control
\* uses the same master policy.
C34_OwnControlInAssignedMaster ==
  pc = "step 9" =>
    \A c \in 1..Len(consolidated_controls) :
      \A n \in 1..Len(consolidated_controls[c].evidenceRequirements.policies) :
        LET control == consolidated_controls[c]
            entry == control.evidenceRequirements.policies[n]
            master == MasterWithId(master_policies, entry.id)
        IN  /\ \E k \in 1..Len(master.sharedAcrossControls) :
                  master.sharedAcrossControls[k] = control.controlId
            /\ entry.sharedWith = Without(master.sharedAcrossControls, control.controlId)
            /\ Len(entry.sharedWith) = Len(master.sharedAcrossControls) - 1
            /\ entry.shared => entry.sharedWith # <<>>

\* the master entry of a group: the one that carries the name of its first
\* member
MasterOfGroup(masters, name) ==
  {m \in 1..Len(masters) : masters[m].standardizedName = name}

\* the list is in the order of the sort, carries the identifiers of the
\* positions, and counts the control ids of the groups
MasterListInOrder(masters, prefix) ==
  /\ \A m \in 1..(Len(masters) - 1) : masters[m].controlCount >= masters[m + 1].controlCount
  /\ \A m \in 1..Len(masters) : masters[m].id = Identifier(prefix, m)
  /\ \A m, n \in 1..Len(masters) : m # n => masters[m].id # masters[n].id

\* C35: the lists of create_master_policy_list and
\* create_master_procedure_list are in non-increasing order of controlCount,
\* the k-th entry has the id POL-k or PROC-k with k padded to three digits,
\* ids are unique, and controlCount is the number of distinct control ids of
\* the group of the entry.
C35_MasterListsSortedAndNumbered ==
  /\ PolicyMastersListed =>
       /\ MasterListInOrder(master_policies, "POL-")
       /\ Len(master_policies) = Len(policy_groups)
       /\ \A g \in 1..Len(policy_groups) :
             \E m \in MasterOfGroup(master_policies,
                        standardize_policy_name(policy_groups[g].policies[1].name,
                                                policy_groups[g].policies[1].family)) :
                master_policies[m].controlCount =
                  Cardinality({policy_groups[g].controls[n] :
                                 n \in 1..Len(policy_groups[g].controls)})
  /\ ProcedureMastersListed =>
       /\ MasterListInOrder(master_procedures, "PROC-")
       /\ Len(master_procedures) = Len(procedure_groups)
       /\ \A g \in 1..Len(procedure_groups) :
             \E m \in MasterOfGroup(master_procedures, procedure_groups[g].procedures[1].name) :
                master_procedures[m].controlCount =
                  Cardinality({procedure_groups[g].controls[n] :
                                 n \in 1..Len(procedure_groups[g].controls)})

\* the sort moved the entry of a later group to the front, and a group lists
\* one control twice
C35_Witness ==
  /\ PolicyMastersListed
  /\ Len(master_policies) >= 2
  /\ master_policies[1].controlCount > master_policies[2].controlCount
  /\ master_policies[1].standardizedName #
       standardize_policy_name(policy_groups[1].policies[1].name,
                               policy_groups[1].policies[1].family)
  /\ \E g \in 1..Len(policy_groups) :
        Len(policy_groups[g].controls) >
          Cardinality({policy_groups[g].controls[n] : n \in 1..Len(policy_groups[g].controls)})

====
